---- MODULE Spec2Model ----
(***************************************************************************)
(* Order fulfilment saga (OrderWorkflow), its shipping sub-saga            *)
(* (ShippingWorkflow), the activity retry policy (ACT_OPTS) and the        *)
(* transactional ledger operations of app/stubs/business.py.               *)
(*                                                                         *)
(* Time is counted in units of 200 ms (the retry policy's initial          *)
(* interval), so 1 s = 5 units and 3 s = 15 units.                         *)
(***************************************************************************)
EXTENDS Integers, Sequences, FiniteSets, TLC

VARIABLES
  \* --- OrderWorkflow fields (order_workflow.py:24-32)
  order_id, payment_id, address, items, approved, canceled, current_step,
  dispatch_failed_reason,
  \* --- position of OrderWorkflow.run, its local `order`, its outcome
  pc, order, result,
  \* --- start arguments handed to run (order_workflow.py:61)
  argItems, argAddress,
  \* --- the activity execution in flight (one execute_activity call)
  actArgs, actAttempt, actClock,
  \* --- ShippingWorkflow.run: position, its `order` argument, the error it caught
  childPc, childOrder, childErr,
  \* --- persistent store: orders, events, payments tables
  orders, events, payments,
  \* --- the calls of attempts that ran into their deadline while still
  \*     running on the worker: [op, args, returned]
  stalled,
  \* --- observation of the run: the operations attempted so far, the
  \*     attempts made of the step in flight, the last backoff waited, what
  \*     the latest attempt received, and the latest update_address applied
  \*     ([sig, prev: the one before it, early: applied before run began,
  \*     sched: sig and early as they stood when the step in flight was built])
  invoked, tries, lastBackoff, lastCall, sigAddress,
  \* --- observation of direct ledger invocations: what the latest payment
  \*     charged invocation returned and the amount its items asked for, the
  \*     first return value per payment_id, the number of invocations, and how
  \*     the latest invocation ended ([raised, surfaced, dirty: it had written
  \*     within its transaction])
  lastRet, firstRet, ledgerOps, lastTxn,
  \* --- payment charged invocations running side by side, each in its own
  \*     transaction: [pc, order, pid, ins: the Payments row it has inserted
  \*     and not committed, row: what its SELECT read, evt: the Events row it
  \*     has inserted, ret: what it returned, waited: its INSERT had to wait]
  txn,
  \* --- the instance as its clients see it: whether a signal sent after the
  \*     run ended has been refused, and what the latest status() returned
  rejected, lastStatus,
  \* --- executions side by side: the workflow executions the server knows
  \*     ([id, run, open, saga fields] and, for sub-sagas, [id, parent, step]),
  \*     and what the latest request to the server was and got
  fleet, fleetObs,
  \* --- one execution and its re-execution: the events recorded for the
  \*     execution, the states it went through, and how far a worker that
  \*     re-executes it from the recorded events has got
  history, trace, replayed

vars == <<order_id, payment_id, address, items, approved, canceled, current_step,
          dispatch_failed_reason, pc, order, result, argItems, argAddress,
          actArgs, actAttempt, actClock, childPc, childOrder, childErr,
          orders, events, payments, invoked, stalled, tries, lastBackoff, lastCall, sigAddress,
          lastRet, firstRet, ledgerOps, lastTxn, txn, rejected, lastStatus,
          fleet, fleetObs, history, trace, replayed>>

wfVars == <<order_id, payment_id, address, items, approved, canceled, current_step,
            dispatch_failed_reason, pc, order, result, argItems, argAddress,
            actArgs, actAttempt, actClock, childPc, childOrder, childErr,
            invoked, stalled, tries, lastBackoff, lastCall, sigAddress,
            rejected, lastStatus, fleet, fleetObs, history, trace, replayed>>

\* the variables of the single saga, its ledger and its observers
soloVars == <<order_id, payment_id, address, items, approved, canceled, current_step,
              dispatch_failed_reason, pc, order, result, argItems, argAddress,
              actArgs, actAttempt, actClock, childPc, childOrder, childErr,
              orders, events, payments, invoked, stalled, tries, lastBackoff,
              lastCall, sigAddress, lastRet, firstRet, ledgerOps, lastTxn, txn,
              rejected, lastStatus>>

dbVars == <<orders, events, payments>>

ledgerObs == <<lastRet, firstRet, ledgerOps, lastTxn, txn, rejected, lastStatus,
               fleet, fleetObs, history, trace, replayed>>

----------------------------------------------------------------------------
(* Bounds of the model                                                     *)

\* an operation that answers (returns or raises) does so within 0..MaxLatency units
MaxLatency == 1
\* number of direct ledger invocations explored by the ledger specification
MaxLedgerOps == 3
\* number of timed-out calls per run that are followed to their late return
MaxLate == 1

----------------------------------------------------------------------------
(* Values                                                                  *)

NULL == "null"            \* Python None
EMPTY == "{}"             \* the empty address dict {}
OrderIds == {"o1", "o2"}
PaymentIds == {"p1", "p2"}
SignalAddresses == {"A", "B"}
StartAddresses == {EMPTY, "S"}
Item(q) == [qty |-> q]
StartItems == {<<>>, <<Item(2)>>}
\* a line item that states no quantity
ItemNoQty == [sku |-> "ABC"]
LedgerItems == {<<>>, <<Item(1)>>, <<Item(2)>>, <<Item(2), ItemNoQty>>}
Operations == {"order_received", "order_validated", "payment_charged",
               "order_shipped", "package_prepared", "carrier_dispatched"}

\* flaky_call: returns, raises, or stalls past the attempt's deadline
FlakyOutcomes == {"ok", "raise", "hang"}

EmptyPayload == [empty |-> TRUE]
NoArgs == [order_id |-> NULL, items |-> <<>>, address |-> NULL, payment_id |-> NULL]

----------------------------------------------------------------------------
(* Retry policy: ACT_OPTS                                                  *)

\* variant: one more attempt allowed
ACT_OPTS_four_attempts ==
  [start_to_close_timeout    |-> 5,
   schedule_to_close_timeout |-> 15,
   initial_interval          |-> 1,
   maximum_interval          |-> 5,
   maximum_attempts          |-> 4,
   backoff_coefficient       |-> 2]

ACT_OPTS ==
  [start_to_close_timeout    |-> 5,
   schedule_to_close_timeout |-> 15,
   initial_interval          |-> 1,
   maximum_interval          |-> 5,
   maximum_attempts          |-> 3,
   backoff_coefficient       |-> 2]

SHIP_ACT_OPTS ==
  [start_to_close_timeout    |-> 5,
   schedule_to_close_timeout |-> 15,
   initial_interval          |-> 1,
   maximum_interval          |-> 5,
   maximum_attempts          |-> 3,
   backoff_coefficient       |-> 2]

RECURSIVE Pow(_, _)
Pow(b, e) == IF e = 0 THEN 1 ELSE b * Pow(b, e - 1)

Min(a, b) == IF a <= b THEN a ELSE b

\* variant: the interval does not grow
BackoffFixed(opts, n) ==
  Min(opts.initial_interval, opts.maximum_interval)

\* wait after the n-th failed attempt: min(initial * coefficient^(n-1), ceiling)
Backoff(opts, n) ==
  Min(opts.initial_interval * Pow(opts.backoff_coefficient, n - 1),
      opts.maximum_interval)

\* variant: an attempt is held to its own deadline only
AttemptBudgetOwnDeadline(opts, clock) ==
  opts.start_to_close_timeout

\* time an attempt that starts at `clock` may run: its own deadline, cut by
\* what is left of the overall deadline
AttemptBudget(opts, clock) ==
  Min(opts.start_to_close_timeout, opts.schedule_to_close_timeout - clock)

\* Outcome of one attempt under the policy.  `attempt` is the attempt number,
\* `clock` the time since the call was scheduled, `ok` whether the operation
\* returned, `d` the time the operation took (the budget when it stalled).
\* status: "completed", "retry" (attempt+1 starts at .clock) or "failed".
RetryExecutor(opts, attempt, clock, ok, d) ==
  LET budget == AttemptBudget(opts, clock)
      timedOut == d >= budget
      endAt == clock + Min(d, budget)
      wait == Backoff(opts, attempt)
  IN  IF ok /\ ~timedOut
        THEN [status |-> "completed", attempt |-> attempt, clock |-> endAt, wait |-> 0]
      ELSE IF endAt >= opts.schedule_to_close_timeout
        THEN [status |-> "failed", attempt |-> attempt, clock |-> endAt, wait |-> 0]
      ELSE IF attempt >= opts.maximum_attempts
        THEN [status |-> "failed", attempt |-> attempt, clock |-> endAt, wait |-> 0]
      ELSE IF endAt + wait >= opts.schedule_to_close_timeout
        THEN [status |-> "failed", attempt |-> attempt, clock |-> endAt, wait |-> 0]
      ELSE [status |-> "retry", attempt |-> attempt + 1, clock |-> endAt + wait,
            wait |-> wait]

----------------------------------------------------------------------------
(* Persistent store and ledger operations (app/stubs/business.py)          *)
(*                                                                         *)
(* A table is the sequence of its rows in insertion order.  The column     *)
(* updated_at carries no behaviour of the saga and is left out.  Each      *)
(* operation takes the store as its session sees it and the outcome of     *)
(* flaky_call, and yields [ok, db, ret]: whether it returned, the store    *)
(* as the session left it, and the value returned.                         *)

Db(o, e, p) == [orders |-> o, events |-> e, payments |-> p]

NoRet == [status |-> NULL, amount |-> 0, payment_id |-> NULL]

Raised(db) == [ok |-> FALSE, db |-> db, ret |-> NoRet]

HasOrder(tbl, id) == \E i \in DOMAIN tbl : tbl[i].id = id
OrderRow(tbl, id) == tbl[CHOOSE i \in DOMAIN tbl : tbl[i].id = id]
HasPayment(tbl, pid) == \E i \in DOMAIN tbl : tbl[i].payment_id = pid
\* res.first(): the first row the SELECT yields
FirstPayment(tbl, pid) ==
  tbl[CHOOSE i \in DOMAIN tbl :
        /\ tbl[i].payment_id = pid
        /\ \A j \in DOMAIN tbl : tbl[j].payment_id = pid => i <= j]

\* UPDATE orders SET state = st WHERE id = id
SetOrderState(tbl, id, st) ==
  [i \in DOMAIN tbl |-> IF tbl[i].id = id THEN [tbl[i] EXCEPT !.state = st] ELSE tbl[i]]

Event(id, type, payload) == [order_id |-> id, type |-> type, payload |-> payload]

\* variant: a line without a quantity adds nothing
ItemQtyOrNothing(i) == IF "qty" \in DOMAIN i THEN i.qty ELSE 0

\* int(i.get("qty", 1))
ItemQty(i) == IF "qty" \in DOMAIN i THEN i.qty ELSE 1

RECURSIVE _sum_amount(_)
_sum_amount(its) ==
  IF its = <<>> THEN 0 ELSE ItemQty(Head(its)) + _sum_amount(Tail(its))

\* `address or {}`
AddrOr(a) == IF a = NULL THEN EMPTY ELSE a

\* variant: on conflict the row takes the address of the new call
order_received_upserts_address(db, id, its, addr, flaky) ==
  IF flaky # "ok" THEN Raised(db)
  ELSE
    LET o1 == IF HasOrder(db.orders, id)
                THEN [i \in DOMAIN db.orders |->
                        IF db.orders[i].id = id
                          THEN [db.orders[i] EXCEPT !.address = addr]
                          ELSE db.orders[i]]
                ELSE Append(db.orders, [id |-> id, state |-> "received", address |-> addr])
        e1 == Append(db.events,
                     Event(id, "order_received", [items |-> its, address |-> AddrOr(addr)]))
    IN  [ok |-> TRUE, db |-> Db(o1, e1, db.payments),
         ret |-> [order_id |-> id, items |-> its, address |-> AddrOr(addr)]]

order_received(db, id, its, addr, flaky) ==
  IF flaky # "ok" THEN Raised(db)
  ELSE
    LET o1 == IF HasOrder(db.orders, id)
                THEN db.orders      \* ON CONFLICT (id) DO UPDATE SET updated_at
                ELSE Append(db.orders, [id |-> id, state |-> "received", address |-> addr])
        e1 == Append(db.events,
                     Event(id, "order_received", [items |-> its, address |-> AddrOr(addr)]))
    IN  [ok |-> TRUE, db |-> Db(o1, e1, db.payments),
         ret |-> [order_id |-> id, items |-> its, address |-> AddrOr(addr)]]

\* variant: the items are not looked at
order_validated_unchecked(db, ord, flaky) ==
  IF flaky # "ok" THEN Raised(db)
  ELSE
    LET o1 == SetOrderState(db.orders, ord.order_id, "validated")
        e1 == Append(db.events, Event(ord.order_id, "order_validated", EmptyPayload))
    IN  [ok |-> TRUE, db |-> Db(o1, e1, db.payments), ret |-> NoRet]

order_validated(db, ord, flaky) ==
  IF flaky # "ok" THEN Raised(db)
  ELSE IF ord.items = <<>> THEN Raised(db)          \* ValueError("No items to validate")
  ELSE
    LET o1 == SetOrderState(db.orders, ord.order_id, "validated")
        e1 == Append(db.events, Event(ord.order_id, "order_validated", EmptyPayload))
    IN  [ok |-> TRUE, db |-> Db(o1, e1, db.payments), ret |-> NoRet]

\* variant: the amount returned is the one computed from this call's items
payment_charged_recomputed(db, ord, pid, flaky) ==
  IF flaky # "ok" THEN Raised(db)
  ELSE
    LET amount == _sum_amount(ord.items)
        p1 == IF HasPayment(db.payments, pid)
                THEN db.payments
                ELSE Append(db.payments,
                            [payment_id |-> pid, order_id |-> ord.order_id,
                             amount |-> amount, status |-> "charged"])
        e1 == Append(db.events,
                     Event(ord.order_id, "payment_charged",
                           [payment_id |-> pid, amount |-> amount, status |-> "charged"]))
    IN  [ok |-> TRUE, db |-> Db(db.orders, e1, p1),
         ret |-> [status |-> "charged", amount |-> amount, payment_id |-> pid]]

payment_charged(db, ord, pid, flaky) ==
  IF flaky # "ok" THEN Raised(db)
  ELSE
    LET amount == _sum_amount(ord.items)
        p1 == IF HasPayment(db.payments, pid)
                THEN db.payments    \* ON CONFLICT (payment_id) DO NOTHING
                ELSE Append(db.payments,
                            [payment_id |-> pid, order_id |-> ord.order_id,
                             amount |-> amount, status |-> "charged"])
    IN  IF ~HasPayment(p1, pid)
          THEN Raised(Db(db.orders, db.events, p1))  \* RuntimeError, after the insert
        ELSE
          LET row == FirstPayment(p1, pid)
              e1 == Append(db.events,
                           Event(ord.order_id, "payment_charged",
                                 [payment_id |-> pid, amount |-> row.amount,
                                  status |-> row.status]))
          IN  [ok |-> TRUE, db |-> Db(db.orders, e1, p1),
               ret |-> [status |-> row.status, amount |-> row.amount,
                        payment_id |-> row.payment_id]]

order_shipped(db, ord, flaky) ==
  IF flaky # "ok" THEN Raised(db)
  ELSE
    LET o1 == SetOrderState(db.orders, ord.order_id, "shipped")
        e1 == Append(db.events, Event(ord.order_id, "order_shipped", EmptyPayload))
    IN  [ok |-> TRUE, db |-> Db(o1, e1, db.payments), ret |-> NoRet]

package_prepared(db, ord, flaky) ==
  IF flaky # "ok" THEN Raised(db)
  ELSE [ok |-> TRUE,
        db |-> Db(db.orders,
                  Append(db.events, Event(ord.order_id, "package_prepared", EmptyPayload)),
                  db.payments),
        ret |-> NoRet]

carrier_dispatched(db, ord, flaky) ==
  IF flaky # "ok" THEN Raised(db)
  ELSE [ok |-> TRUE,
        db |-> Db(db.orders,
                  Append(db.events, Event(ord.order_id, "carrier_dispatched", EmptyPayload)),
                  db.payments),
        ret |-> NoRet]

\* variant: what the body wrote stays written when it raises
db_session_keeps_writes(db, res) ==
  [ok |-> res.ok, db |-> res.db, ret |-> res.ret]

\* db_session: commit when the body returned, roll back when it raised
db_session(db, res) ==
  [ok |-> res.ok, db |-> IF res.ok THEN res.db ELSE db, ret |-> res.ret]

(* Activities (app/activities/order.py, app/activities/shipping.py)        *)

receive_order_activity(db, id, its, addr, flaky) ==
  db_session(db, order_received(db, id, its, AddrOr(addr), flaky))

validate_order_activity(db, ord, flaky) ==
  db_session(db, order_validated(db, ord, flaky))

charge_payment_activity(db, ord, pid, flaky) ==
  db_session(db, payment_charged(db, ord, pid, flaky))

mark_shipped_activity(db, ord, flaky) ==
  db_session(db, order_shipped(db, ord, flaky))

prepare_package_activity(db, ord, flaky) ==
  db_session(db, package_prepared(db, ord, flaky))

dispatch_carrier_activity(db, ord, flaky) ==
  db_session(db, carrier_dispatched(db, ord, flaky))

CurDb == Db(orders, events, payments)

----------------------------------------------------------------------------
(* OrderWorkflow (app/workflows/order_workflow.py)                         *)

CanonicalSteps == <<"init", "receive", "validate", "manual_review", "charge",
                    "shipping", "shipped">>

NoCall == [op |-> NULL, flaky |-> NULL, address |-> NULL, sigAtCall |-> NULL,
           earlyAtCall |-> FALSE, sigAtSched |-> NULL, earlyAtSched |-> FALSE,
           canceledAtCall |-> FALSE]
NoSched == [sig |-> NULL, early |-> FALSE]

\* OrderWorkflow.__init__, with the instance created and run not yet begun
NoTxn == [raised |-> FALSE, surfaced |-> FALSE, dirty |-> FALSE]

\* the transactions of the concurrent invocations
Txns == {1, 2}
IdleTxn == [pc |-> "idle", order |-> NoArgs, pid |-> NULL, ins |-> <<>>,
            row |-> NoRet, evt |-> <<>>, ret |-> NoRet, waited |-> FALSE]

\* OrderWorkflow.__init__ as a record: the fields, the local `order` of run,
\* its outcome, and the commands run has issued so far
Created ==
  [order_id |-> "", payment_id |-> "", address |-> NULL, items |-> <<>>,
   approved |-> FALSE, canceled |-> FALSE, current_step |-> "init",
   dispatch_failed_reason |-> NULL, order |-> NoArgs, result |-> "none",
   cmds |-> <<>>]

NoRequest == [kind |-> NULL, to |-> NULL, refused |-> FALSE]

NoStatus == [step |-> NULL, approved |-> FALSE, canceled |-> FALSE,
             address |-> NULL, dispatch_failed_reason |-> NULL]

InitSaga ==
  /\ order_id = "" /\ payment_id = ""
  /\ address = NULL /\ items = <<>>
  /\ approved = FALSE /\ canceled = FALSE
  /\ current_step = "init"
  /\ dispatch_failed_reason = NULL
  /\ pc = "init" /\ order = NoArgs /\ result = "none"
  /\ argItems \in StartItems /\ argAddress \in StartAddresses
  /\ actArgs = NoArgs /\ actAttempt = 0 /\ actClock = 0
  /\ childPc = "none" /\ childOrder = NoArgs /\ childErr = NULL
  /\ invoked = {} /\ stalled = {} /\ tries = 0 /\ lastBackoff = 0
  /\ lastCall = NoCall
  /\ sigAddress = [sig |-> NULL, prev |-> NULL, early |-> FALSE, sched |-> NoSched]
  /\ lastRet = [ret |-> NoRet, asked |-> 0, items |-> <<>>] /\ firstRet = [p \in PaymentIds |-> NoRet] /\ ledgerOps = 0
  /\ lastTxn = NoTxn
  /\ txn = [t \in Txns |-> IdleTxn]
  /\ rejected = FALSE /\ lastStatus = NoStatus
  /\ fleet = {} /\ fleetObs = NoRequest
  /\ history = <<>> /\ trace = <<Created>> /\ replayed = [pos |-> 0, w |-> Created]

\* the instance has been created and the ledger is empty
Init == InitSaga /\ orders = <<>> /\ events = <<>> /\ payments = <<>>

\* a signal is accepted while the instance is open
Open == pc # "done"

\* variant: the handler also records the cancellation as the current step
cancel_order_sets_step ==
  /\ Open
  /\ canceled' = TRUE
  /\ current_step' = "canceled"
  /\ UNCHANGED <<order_id, payment_id, address, items, approved,
                 dispatch_failed_reason, pc, order, result, argItems, argAddress,
                 actArgs, actAttempt, actClock, childPc, childOrder, childErr,
                 invoked, stalled, tries, lastBackoff, lastCall, sigAddress>>
  /\ UNCHANGED <<dbVars, ledgerObs>>

\* variant: a cancellation ends the run wherever it is
cancel_order_preemptive ==
  /\ Open
  /\ canceled' = TRUE
  /\ IF pc \in {"charge", "shipping"}
       THEN result' = "Canceled" /\ pc' = "done"
       ELSE UNCHANGED <<result, pc>>
  /\ UNCHANGED <<order_id, payment_id, address, items, approved, current_step,
                 dispatch_failed_reason, order, argItems, argAddress,
                 actArgs, actAttempt, actClock, childPc, childOrder, childErr,
                 invoked, stalled, tries, lastBackoff, lastCall, sigAddress>>
  /\ UNCHANGED <<dbVars, ledgerObs>>

cancel_order ==
  /\ Open
  /\ canceled' = TRUE
  /\ UNCHANGED <<order_id, payment_id, address, items, approved, current_step,
                 dispatch_failed_reason, pc, order, result, argItems, argAddress,
                 actArgs, actAttempt, actClock, childPc, childOrder, childErr,
                 invoked, stalled, tries, lastBackoff, lastCall, sigAddress>>
  /\ UNCHANGED <<dbVars, ledgerObs>>

\* variant: only the first update is kept
update_address_first_wins(a) ==
  /\ Open
  /\ address' = IF sigAddress.sig = NULL THEN a ELSE address
  /\ sigAddress' = [sigAddress EXCEPT !.sig = a, !.prev = sigAddress.sig,
                                      !.early = (pc = "init")]
  /\ UNCHANGED <<order_id, payment_id, items, approved, canceled, current_step,
                 dispatch_failed_reason, pc, order, result, argItems, argAddress,
                 actArgs, actAttempt, actClock, childPc, childOrder, childErr,
                 invoked, stalled, tries, lastBackoff, lastCall>>
  /\ UNCHANGED <<dbVars, ledgerObs>>

update_address(a) ==
  /\ Open
  /\ address' = a
  /\ sigAddress' = [sigAddress EXCEPT !.sig = a, !.prev = sigAddress.sig,
                                      !.early = (pc = "init")]
  /\ UNCHANGED <<order_id, payment_id, items, approved, canceled, current_step,
                 dispatch_failed_reason, pc, order, result, argItems, argAddress,
                 actArgs, actAttempt, actClock, childPc, childOrder, childErr,
                 invoked, stalled, tries, lastBackoff, lastCall>>
  /\ UNCHANGED <<dbVars, ledgerObs>>

approve ==
  /\ Open
  /\ approved' = TRUE
  /\ UNCHANGED <<order_id, payment_id, address, items, canceled, current_step,
                 dispatch_failed_reason, pc, order, result, argItems, argAddress,
                 actArgs, actAttempt, actClock, childPc, childOrder, childErr,
                 invoked, stalled, tries, lastBackoff, lastCall, sigAddress>>
  /\ UNCHANGED <<dbVars, ledgerObs>>

\* the handler body, shared by the external signal and the sub-saga's signal
dispatch_failed(reason) ==
  /\ dispatch_failed_reason' = reason

\* the record handed to an activity: the order fields and the payment id
Args(id, its, addr, pid) ==
  [order_id |-> id, items |-> its, address |-> addr, payment_id |-> pid]

\* execute_activity(...): the call is scheduled and its first attempt starts
Schedule(args) ==
  /\ actArgs' = args
  /\ actAttempt' = 1
  /\ actClock' = 0

\* the order record of a step is built from the fields as they stand now
Capture ==
  sigAddress' = [sigAddress EXCEPT !.sched = [sig |-> sigAddress.sig,
                                              early |-> sigAddress.early]]

\* one more attempt of the operation `op` has started, with the record it got
\* a call that runs into the deadline either never gets past its stall
\* ("hang") or is one that will ("stall"); the latter are followed, at most
\* MaxLate of them
StalledCall(op, args) == [op |-> op, args |-> args, returned |-> FALSE]

Observe(op, flaky) ==
  /\ invoked' = invoked \cup {op}
  /\ flaky = "stall" => Cardinality(stalled) < MaxLate
  /\ stalled' = IF flaky = "stall" THEN stalled \cup {StalledCall(op, actArgs)}
                                   ELSE stalled
  /\ tries' = IF actAttempt = 1 THEN 1 ELSE tries + 1
  /\ lastCall' = [op |-> op, flaky |-> IF flaky = "ok" THEN "ok" ELSE "failed",
                  address |-> actArgs.address, sigAtCall |-> sigAddress.sig,
                  earlyAtCall |-> sigAddress.early,
                  sigAtSched |-> sigAddress.sched.sig,
                  earlyAtSched |-> sigAddress.sched.early,
                  canceledAtCall |-> canceled]

\* the attempt's transaction: what db_session left in the store
Store(res) ==
  /\ orders' = res.db.orders
  /\ events' = res.db.events
  /\ payments' = res.db.payments

\* an operation that answers does so before the attempt's deadline; one that
\* stalls runs into the deadline with its transaction not committed and the
\* attempt counts as failed
Stalls(flaky) == flaky \in {"hang", "stall"}

Duration(opts, flaky, d) ==
  IF Stalls(flaky) THEN AttemptBudget(opts, actClock) ELSE d

Answers(opts, flaky, d) ==
  ~Stalls(flaky) => d < AttemptBudget(opts, actClock)

\* the call has returned: no activity is in flight
Idle ==
  /\ actArgs' = NoArgs
  /\ actAttempt' = 0
  /\ actClock' = 0
  /\ lastBackoff' = 0

\* the retry policy schedules the next attempt after the backoff
Retry(r) ==
  /\ actAttempt' = r.attempt
  /\ actClock' = r.clock
  /\ lastBackoff' = r.wait

\* an exception leaves run: the instance fails
Fail ==
  /\ result' = "failed"
  /\ pc' = "done"

\* variant: run starts from a clean slate, dropping signals applied before it
RunStartClearsFlags ==
  /\ pc = "init"
  /\ order_id' = "o1" /\ payment_id' = "p1"
  /\ items' = argItems
  /\ address' = AddrOr(argAddress)
  /\ approved' = FALSE /\ canceled' = FALSE
  /\ current_step' = "receive"
  /\ pc' = "receive"
  /\ Schedule(Args("o1", argItems, AddrOr(argAddress), "p1"))
  /\ Capture
  /\ UNCHANGED <<dispatch_failed_reason, order, result,
                 argItems, argAddress, childPc, childOrder, childErr,
                 invoked, stalled, tries, lastBackoff, lastCall>>
  /\ UNCHANGED <<dbVars, ledgerObs>>

\* variant: the step is recorded when its activity has completed, not before
RunStartStepAfter ==
  /\ pc = "init"
  /\ order_id' = "o1" /\ payment_id' = "p1"
  /\ items' = argItems
  /\ address' = AddrOr(argAddress)
  /\ pc' = "receive"
  /\ Schedule(Args("o1", argItems, AddrOr(argAddress), "p1"))
  /\ Capture
  /\ UNCHANGED <<approved, canceled, current_step, dispatch_failed_reason, order,
                 result, argItems, argAddress, childPc, childOrder, childErr,
                 invoked, stalled, tries, lastBackoff, lastCall>>
  /\ UNCHANGED <<dbVars, ledgerObs>>

\* run, lines 62-66: take the arguments, enter receive, schedule the activity
RunStart ==
  /\ pc = "init"
  /\ order_id' = "o1" /\ payment_id' = "p1"
  /\ items' = argItems
  /\ address' = AddrOr(argAddress)
  /\ current_step' = "receive"
  /\ pc' = "receive"
  /\ Schedule(Args("o1", argItems, AddrOr(argAddress), "p1"))
  /\ Capture
  /\ UNCHANGED <<approved, canceled, dispatch_failed_reason, order, result,
                 argItems, argAddress, childPc, childOrder, childErr,
                 invoked, stalled, tries, lastBackoff, lastCall>>
  /\ UNCHANGED <<dbVars, ledgerObs>>

\* one attempt of receive_order_activity and, when it completes, lines 66-69
ReceiveAttempt(flaky, d) ==
  /\ pc = "receive"
  /\ Answers(ACT_OPTS, flaky, d)
  /\ LET res == receive_order_activity(CurDb, actArgs.order_id, actArgs.items,
                                       actArgs.address, flaky)
         r == RetryExecutor(ACT_OPTS, actAttempt, actClock, res.ok,
                            Duration(ACT_OPTS, flaky, d))
     IN  /\ Store(res)
         /\ Observe("order_received", flaky)
         /\ CASE r.status = "completed" ->
                   /\ order' = res.ret
                   /\ current_step' = "validate"
                   /\ pc' = "validate"
                   /\ Schedule(Args(res.ret.order_id, res.ret.items, res.ret.address,
                                    payment_id))
                   /\ Capture
                   /\ lastBackoff' = 0
                   /\ UNCHANGED result
              [] r.status = "retry" ->
                   /\ Retry(r)
                   /\ UNCHANGED <<order, current_step, pc, actArgs, result, sigAddress>>
              [] r.status = "failed" ->
                   /\ Fail
                   /\ UNCHANGED <<order, current_step, actArgs, actAttempt, actClock,
                                  lastBackoff, sigAddress>>
  /\ UNCHANGED <<order_id, payment_id, address, items, approved, canceled,
                 dispatch_failed_reason, argItems, argAddress, childPc, childOrder,
                 childErr>>
  /\ UNCHANGED ledgerObs

\* one attempt of validate_order_activity and, when it completes, lines 69-72
ValidateAttempt(flaky, d) ==
  /\ pc = "validate"
  /\ Answers(ACT_OPTS, flaky, d)
  /\ LET res == validate_order_activity(CurDb, actArgs, flaky)
         r == RetryExecutor(ACT_OPTS, actAttempt, actClock, res.ok,
                            Duration(ACT_OPTS, flaky, d))
     IN  /\ Store(res)
         /\ Observe("order_validated", flaky)
         /\ CASE r.status = "completed" ->
                   /\ current_step' = "manual_review"
                   /\ pc' = "manual_review"
                   /\ Idle
                   /\ UNCHANGED <<result, sigAddress>>
              [] r.status = "retry" ->
                   /\ Retry(r)
                   /\ UNCHANGED <<current_step, pc, actArgs, result, sigAddress>>
              [] r.status = "failed" ->
                   /\ Fail
                   /\ UNCHANGED <<current_step, actArgs, actAttempt, actClock,
                                  lastBackoff, sigAddress>>
  /\ UNCHANGED <<order_id, payment_id, address, items, approved, canceled,
                 dispatch_failed_reason, order, argItems, argAddress, childPc,
                 childOrder, childErr>>
  /\ UNCHANGED ledgerObs

\* variant: the approval is looked at first
GateDecisionApprovedFirst(isApproved, isCanceled) ==
  IF isApproved THEN "charge" ELSE "Canceled"

\* lines 73-76: `if self.canceled: return "Canceled"`, else go on to charge
GateDecision(isApproved, isCanceled) ==
  IF isCanceled THEN "Canceled" ELSE "charge"


\* variant: a canceled run records canceled as its step before it returns
GateEntersCanceled ==
  /\ pc = "manual_review"
  /\ approved \/ canceled
  /\ IF GateDecision(approved, canceled) = "Canceled"
       THEN /\ result' = "Canceled"
            /\ pc' = "done"
            /\ current_step' = "canceled"
            /\ UNCHANGED <<actArgs, actAttempt, actClock, sigAddress>>
       ELSE /\ current_step' = "charge"
            /\ pc' = "charge"
            /\ Schedule(Args(order_id, items, address, payment_id))
            /\ Capture
            /\ UNCHANGED result
  /\ UNCHANGED <<order_id, payment_id, address, items, approved, canceled,
                 dispatch_failed_reason, order, argItems, argAddress, childPc,
                 childOrder, childErr, invoked, stalled, tries, lastBackoff, lastCall>>
  /\ UNCHANGED <<dbVars, ledgerObs>>
\* lines 72-81: the wait is over because approved or canceled is set.  The
\* signals of one activation are all applied before run resumes, so the
\* flags are read as they stand when the gate is evaluated.
Gate ==
  /\ pc = "manual_review"
  /\ approved \/ canceled
  /\ IF GateDecision(approved, canceled) = "Canceled"
       THEN /\ result' = "Canceled"
            /\ pc' = "done"
            /\ UNCHANGED <<current_step, actArgs, actAttempt, actClock, sigAddress>>
       ELSE /\ current_step' = "charge"
            /\ pc' = "charge"
            /\ Schedule(Args(order_id, items, address, payment_id))
            /\ Capture
            /\ UNCHANGED result
  /\ UNCHANGED <<order_id, payment_id, address, items, approved, canceled,
                 dispatch_failed_reason, order, argItems, argAddress, childPc,
                 childOrder, childErr, invoked, stalled, tries, lastBackoff, lastCall>>
  /\ UNCHANGED <<dbVars, ledgerObs>>

\* variant: the wait returns when the time is up and run goes on to line 73
ReviewTimeoutReturns ==
  /\ pc = "manual_review"
  /\ ~(approved \/ canceled)
  /\ current_step' = "charge"
  /\ pc' = "charge"
  /\ Schedule(Args(order_id, items, address, payment_id))
  /\ Capture
  /\ UNCHANGED <<order_id, payment_id, address, items, approved, canceled,
                 dispatch_failed_reason, order, result, argItems, argAddress, childPc,
                 childOrder, childErr, invoked, stalled, tries, lastBackoff, lastCall>>
  /\ UNCHANGED <<dbVars, ledgerObs>>

\* variant: the order is cancelled when the time is up
ReviewTimeoutCancels ==
  /\ pc = "manual_review"
  /\ ~(approved \/ canceled)
  /\ canceled' = TRUE
  /\ result' = "Canceled"
  /\ pc' = "done"
  /\ UNCHANGED <<order_id, payment_id, address, items, approved,
                 current_step, dispatch_failed_reason, order, argItems, argAddress,
                 actArgs, actAttempt, actClock, childPc, childOrder, childErr,
                 invoked, stalled, tries, lastBackoff, lastCall, sigAddress>>
  /\ UNCHANGED <<dbVars, ledgerObs>>

\* line 72: the 4 s elapse with neither flag set; wait_condition raises
\* a timeout error, which nothing in run catches
ReviewTimeout ==
  /\ pc = "manual_review"
  /\ ~(approved \/ canceled)
  /\ Fail
  /\ UNCHANGED <<order_id, payment_id, address, items, approved, canceled,
                 current_step, dispatch_failed_reason, order, argItems, argAddress,
                 actArgs, actAttempt, actClock, childPc, childOrder, childErr,
                 invoked, stalled, tries, lastBackoff, lastCall, sigAddress>>
  /\ UNCHANGED <<dbVars, ledgerObs>>

\* one attempt of charge_payment_activity and, when it completes, lines 83-90
ChargeAttempt(flaky, d) ==
  /\ pc = "charge"
  /\ Answers(ACT_OPTS, flaky, d)
  /\ LET res == charge_payment_activity(CurDb, actArgs, actArgs.payment_id, flaky)
         r == RetryExecutor(ACT_OPTS, actAttempt, actClock, res.ok,
                            Duration(ACT_OPTS, flaky, d))
     IN  /\ Store(res)
         /\ Observe("payment_charged", flaky)
         /\ CASE r.status = "completed" ->
                   /\ current_step' = "shipping"
                   /\ pc' = "shipping"
                   /\ childPc' = "start"
                   /\ childOrder' = Args(order_id, items, address, NULL)
                   /\ Capture
                   /\ Idle
                   /\ UNCHANGED result
              [] r.status = "retry" ->
                   /\ Retry(r)
                   /\ UNCHANGED <<current_step, pc, actArgs, result, childPc, childOrder,
                                  sigAddress>>
              [] r.status = "failed" ->
                   /\ Fail
                   /\ UNCHANGED <<current_step, actArgs, actAttempt, actClock,
                                  lastBackoff, childPc, childOrder, sigAddress>>
  /\ UNCHANGED <<order_id, payment_id, address, items, approved, canceled,
                 dispatch_failed_reason, order, argItems, argAddress, childErr>>
  /\ UNCHANGED ledgerObs




\* variant: the parent marks the order shipped before it returns
AwaitChildMarksShipped ==
  /\ pc = "shipping"
  /\ childPc \in {"completed", "failed"}
  /\ IF childPc = "completed"
       THEN /\ current_step' = "shipped"
            /\ result' = "Shipped"
            /\ pc' = "done"
            /\ Store(mark_shipped_activity(CurDb, childOrder, "ok"))
       ELSE /\ Fail
            /\ UNCHANGED <<current_step, dbVars>>
  /\ UNCHANGED <<order_id, payment_id, address, items, approved, canceled,
                 dispatch_failed_reason, order, argItems, argAddress,
                 actArgs, actAttempt, actClock, childPc, childOrder, childErr,
                 invoked, stalled, tries, lastBackoff, lastCall, sigAddress>>
  /\ UNCHANGED ledgerObs
\* variant: a failed sub-saga makes run reverse the payment before it fails
AwaitChildRefunds ==
  /\ pc = "shipping"
  /\ childPc \in {"completed", "failed"}
  /\ IF childPc = "completed"
       THEN /\ current_step' = "shipped"
            /\ result' = "Shipped"
            /\ pc' = "done"
            /\ UNCHANGED payments
       ELSE /\ Fail
            /\ payments' = [i \in DOMAIN payments |->
                              IF payments[i].payment_id = payment_id
                                THEN [payments[i] EXCEPT !.status = "refunded"]
                                ELSE payments[i]]
            /\ UNCHANGED current_step
  /\ UNCHANGED <<order_id, payment_id, address, items, approved, canceled,
                 dispatch_failed_reason, order, argItems, argAddress,
                 actArgs, actAttempt, actClock, childPc, childOrder, childErr,
                 invoked, stalled, tries, lastBackoff, lastCall, sigAddress>>
  /\ UNCHANGED <<orders, events, ledgerObs>>
\* variant: the result is returned without the step being advanced
AwaitChildKeepsStep ==
  /\ pc = "shipping"
  /\ childPc \in {"completed", "failed"}
  /\ IF childPc = "completed"
       THEN /\ result' = "Shipped"
            /\ pc' = "done"
            /\ UNCHANGED current_step
       ELSE /\ Fail
            /\ UNCHANGED current_step
  /\ UNCHANGED <<order_id, payment_id, address, items, approved, canceled,
                 dispatch_failed_reason, order, argItems, argAddress,
                 actArgs, actAttempt, actClock, childPc, childOrder, childErr,
                 invoked, stalled, tries, lastBackoff, lastCall, sigAddress>>
  /\ UNCHANGED <<dbVars, ledgerObs>>
\* lines 91-93: the sub-saga has ended; its failure is raised in run
AwaitChild ==
  /\ pc = "shipping"
  /\ childPc \in {"completed", "failed"}
  /\ IF childPc = "completed"
       THEN /\ current_step' = "shipped"
            /\ result' = "Shipped"
            /\ pc' = "done"
       ELSE /\ Fail
            /\ UNCHANGED current_step
  /\ UNCHANGED <<order_id, payment_id, address, items, approved, canceled,
                 dispatch_failed_reason, order, argItems, argAddress,
                 actArgs, actAttempt, actClock, childPc, childOrder, childErr,
                 invoked, stalled, tries, lastBackoff, lastCall, sigAddress>>
  /\ UNCHANGED <<dbVars, ledgerObs>>

\* the dispatch_failed signal sent by a client
DispatchFailedSignal(reason) ==
  /\ Open
  /\ dispatch_failed(reason)
  /\ UNCHANGED <<order_id, payment_id, address, items, approved, canceled,
                 current_step, pc, order, result, argItems, argAddress,
                 actArgs, actAttempt, actClock, childPc, childOrder, childErr,
                 invoked, stalled, tries, lastBackoff, lastCall, sigAddress>>
  /\ UNCHANGED <<dbVars, ledgerObs>>

----------------------------------------------------------------------------
(* ShippingWorkflow (app/workflows/shipping_workflow.py)                   *)

ExternalReasons == {"ext"}
DispatchError == "dispatch error"      \* str(e) of the error caught at line 26

\* run begins with the order record the parent passed; line 23 schedules
\* prepare_package_activity
ShipStart ==
  /\ pc = "shipping"
  /\ childPc = "start"
  /\ childPc' = "prepare"
  /\ Schedule(childOrder)
  /\ UNCHANGED <<order_id, payment_id, address, items, approved, canceled,
                 current_step, dispatch_failed_reason, pc, order, result, argItems,
                 argAddress, childOrder, childErr, invoked, stalled, tries, lastBackoff, lastCall,
                 sigAddress>>
  /\ UNCHANGED <<dbVars, ledgerObs>>


\* variant: prepare is inside the try, so its failure is reported as well
PrepareAttemptInsideTry(flaky, d) ==
  /\ childPc = "prepare"
  /\ Answers(SHIP_ACT_OPTS, flaky, d)
  /\ LET res == prepare_package_activity(CurDb, actArgs, flaky)
         r == RetryExecutor(SHIP_ACT_OPTS, actAttempt, actClock, res.ok,
                            Duration(SHIP_ACT_OPTS, flaky, d))
     IN  /\ Store(res)
         /\ Observe("package_prepared", flaky)
         /\ CASE r.status = "completed" ->
                   /\ childPc' = "dispatch"
                   /\ Schedule(childOrder)
                   /\ lastBackoff' = 0
                   /\ UNCHANGED childErr
              [] r.status = "retry" ->
                   /\ Retry(r)
                   /\ UNCHANGED <<childPc, childErr, actArgs>>
              [] r.status = "failed" ->
                   /\ childPc' = "notify"
                   /\ childErr' = DispatchError
                   /\ UNCHANGED <<actArgs, actAttempt, actClock, lastBackoff>>
  /\ UNCHANGED <<order_id, payment_id, address, items, approved, canceled,
                 current_step, dispatch_failed_reason, pc, order, result, argItems,
                 argAddress, childOrder, sigAddress>>
  /\ UNCHANGED ledgerObs
\* one attempt of prepare_package_activity and, when it completes, line 25
PrepareAttempt(flaky, d) ==
  /\ childPc = "prepare"
  /\ Answers(SHIP_ACT_OPTS, flaky, d)
  /\ LET res == prepare_package_activity(CurDb, actArgs, flaky)
         r == RetryExecutor(SHIP_ACT_OPTS, actAttempt, actClock, res.ok,
                            Duration(SHIP_ACT_OPTS, flaky, d))
     IN  /\ Store(res)
         /\ Observe("package_prepared", flaky)
         /\ CASE r.status = "completed" ->
                   /\ childPc' = "dispatch"
                   /\ Schedule(childOrder)
                   /\ lastBackoff' = 0
              [] r.status = "retry" ->
                   /\ Retry(r)
                   /\ UNCHANGED <<childPc, actArgs>>
              [] r.status = "failed" ->
                   /\ childPc' = "failed"
                   /\ UNCHANGED <<actArgs, actAttempt, actClock, lastBackoff>>
  /\ UNCHANGED <<order_id, payment_id, address, items, approved, canceled,
                 current_step, dispatch_failed_reason, pc, order, result, argItems,
                 argAddress, childOrder, childErr, sigAddress>>
  /\ UNCHANGED ledgerObs

\* one attempt of dispatch_carrier_activity; its failure is caught at line 26
DispatchAttempt(flaky, d) ==
  /\ childPc = "dispatch"
  /\ Answers(SHIP_ACT_OPTS, flaky, d)
  /\ LET res == dispatch_carrier_activity(CurDb, actArgs, flaky)
         r == RetryExecutor(SHIP_ACT_OPTS, actAttempt, actClock, res.ok,
                            Duration(SHIP_ACT_OPTS, flaky, d))
     IN  /\ Store(res)
         /\ Observe("carrier_dispatched", flaky)
         /\ CASE r.status = "completed" ->
                   /\ childPc' = "completed"
                   /\ Idle
                   /\ UNCHANGED childErr
              [] r.status = "retry" ->
                   /\ Retry(r)
                   /\ UNCHANGED <<childPc, childErr, actArgs>>
              [] r.status = "failed" ->
                   /\ childPc' = "notify"
                   /\ childErr' = DispatchError
                   /\ UNCHANGED <<actArgs, actAttempt, actClock, lastBackoff>>
  /\ UNCHANGED <<order_id, payment_id, address, items, approved, canceled,
                 current_step, dispatch_failed_reason, pc, order, result, argItems,
                 argAddress, childOrder, sigAddress>>
  /\ UNCHANGED ledgerObs

\* variant: the failure is re-raised without telling the parent
NotifyParentSilent ==
  /\ childPc = "notify"
  /\ childPc' = "failed"
  /\ UNCHANGED <<order_id, payment_id, address, items, approved, canceled,
                 current_step, dispatch_failed_reason, pc, order, result, argItems,
                 argAddress, actArgs, actAttempt, actClock, childOrder, childErr,
                 invoked, stalled, tries, lastBackoff, lastCall, sigAddress>>
  /\ UNCHANGED <<dbVars, ledgerObs>>

\* lines 27-30: signal the parent, which applies dispatch_failed, then re-raise
NotifyParent ==
  /\ childPc = "notify"
  /\ IF Open THEN dispatch_failed(childErr) ELSE UNCHANGED dispatch_failed_reason
  /\ childPc' = "failed"
  /\ UNCHANGED <<order_id, payment_id, address, items, approved, canceled,
                 current_step, pc, order, result, argItems, argAddress,
                 actArgs, actAttempt, actClock, childOrder, childErr,
                 invoked, stalled, tries, lastBackoff, lastCall, sigAddress>>
  /\ UNCHANGED <<dbVars, ledgerObs>>

\* the call of an activity as the worker runs it, the simulator having passed
ActivityCall(db, op, args) ==
  CASE op = "order_received" ->
         receive_order_activity(db, args.order_id, args.items, args.address, "ok")
    [] op = "order_validated" -> validate_order_activity(db, args, "ok")
    [] op = "payment_charged" ->
         charge_payment_activity(db, args, args.payment_id, "ok")
    [] op = "package_prepared" -> prepare_package_activity(db, args, "ok")
    [] op = "carrier_dispatched" -> dispatch_carrier_activity(db, args, "ok")

\* The activities send no heartbeat, so an attempt that hit its deadline is
\* not cancelled: its call goes on running and, if it gets past the stall,
\* db_session commits its transaction (db.py:47) whatever the run has done
\* since.
LateReturn(z) ==
  /\ z \in stalled /\ ~z.returned
  /\ stalled' = (stalled \ {z}) \cup {[z EXCEPT !.returned = TRUE]}
  /\ Store(ActivityCall(CurDb, z.op, z.args))
  /\ UNCHANGED <<order_id, payment_id, address, items, approved, canceled,
                 current_step, dispatch_failed_reason, pc, order, result, argItems,
                 argAddress, actArgs, actAttempt, actClock, childPc, childOrder,
                 childErr, invoked, tries, lastBackoff, lastCall, sigAddress>>
  /\ UNCHANGED ledgerObs

----------------------------------------------------------------------------
(* The saga: signals in any order against the steps of the run             *)

Latencies == 0..MaxLatency

Next ==
  \/ cancel_order
  \/ \E a \in SignalAddresses : update_address(a)
  \/ approve
  \/ \E reason \in ExternalReasons : DispatchFailedSignal(reason)
  \/ RunStart
  \/ \E flaky \in FlakyOutcomes, d \in Latencies : ReceiveAttempt(flaky, d)
  \/ \E flaky \in FlakyOutcomes, d \in Latencies : ValidateAttempt(flaky, d)
  \/ Gate
  \/ ReviewTimeout
  \/ \E flaky \in FlakyOutcomes, d \in Latencies : ChargeAttempt(flaky, d)
  \/ AwaitChild
  \/ ShipStart
  \/ \E flaky \in FlakyOutcomes, d \in Latencies : PrepareAttempt(flaky, d)
  \/ \E flaky \in FlakyOutcomes, d \in Latencies : DispatchAttempt(flaky, d)
  \/ NotifyParent

Spec == Init /\ [][Next]_vars


\* The steps the workers take on their own: workflow tasks, timers and
\* activity attempts.  Signals are the clients' to send or not.
RunSteps ==
  \/ RunStart
  \/ \E flaky \in FlakyOutcomes, d \in Latencies : ReceiveAttempt(flaky, d)
  \/ \E flaky \in FlakyOutcomes, d \in Latencies : ValidateAttempt(flaky, d)
  \/ Gate
  \/ ReviewTimeout
  \/ \E flaky \in FlakyOutcomes, d \in Latencies : ChargeAttempt(flaky, d)
  \/ AwaitChild
  \/ ShipStart
  \/ \E flaky \in FlakyOutcomes, d \in Latencies : PrepareAttempt(flaky, d)
  \/ \E flaky \in FlakyOutcomes, d \in Latencies : DispatchAttempt(flaky, d)
  \/ NotifyParent

\* The saga on running workers: a workflow task, timer or attempt that is
\* due is eventually executed
SpecLive == Init /\ [][Next]_vars /\ WF_vars(RunSteps)
\* The saga on a worker whose timed-out calls may come back: as Next, and an
\* attempt may also stall and return after its deadline
NextLate ==
  \/ Next
  \/ \E d \in Latencies : ReceiveAttempt("stall", d)
  \/ \E d \in Latencies : ValidateAttempt("stall", d)
  \/ \E d \in Latencies : ChargeAttempt("stall", d)
  \/ \E d \in Latencies : PrepareAttempt("stall", d)
  \/ \E d \in Latencies : DispatchAttempt("stall", d)
  \/ \E z \in stalled : LateReturn(z)

SpecLate == Init /\ [][NextLate]_vars

----------------------------------------------------------------------------
(* The saga and its clients: status() queries at any time, signals sent    *)
(* to an instance whose run has ended, and a dispatch_failed signal that   *)
(* cannot be delivered                                                     *)


\* variant: the address reported is the one the saga was started with
status_start_address ==
  [step |-> current_step, approved |-> approved, canceled |-> canceled,
   address |-> argAddress, dispatch_failed_reason |-> dispatch_failed_reason]
\* lines 50-58: the status query
status ==
  [step |-> current_step, approved |-> approved, canceled |-> canceled,
   address |-> address, dispatch_failed_reason |-> dispatch_failed_reason]

\* a client calls status(); closed instances answer queries too.  The handler
\* is synchronous: it runs to its return with no other workflow code between
Query ==
  /\ lastStatus = NoStatus
  /\ lastStatus' = status
  /\ UNCHANGED <<order_id, payment_id, address, items, approved, canceled,
                 current_step, dispatch_failed_reason, pc, order, result, argItems,
                 argAddress, actArgs, actAttempt, actClock, childPc, childOrder,
                 childErr, invoked, stalled, tries, lastBackoff, lastCall,
                 sigAddress>>
  /\ UNCHANGED <<dbVars, lastRet, firstRet, ledgerOps, lastTxn, txn, rejected,
                 fleet, fleetObs, history, trace, replayed>>

\* variant: a signal sent after the run ended still reaches its handler
LateSignalApplied ==
  /\ pc = "done"
  /\ rejected' = TRUE
  /\ \E a \in SignalAddresses : address' = a
  /\ UNCHANGED <<order_id, payment_id, items, approved, canceled,
                 current_step, dispatch_failed_reason, pc, order, result, argItems,
                 argAddress, actArgs, actAttempt, actClock, childPc, childOrder,
                 childErr, invoked, stalled, tries, lastBackoff, lastCall,
                 sigAddress>>
  /\ UNCHANGED <<dbVars, lastRet, firstRet, ledgerOps, lastTxn, txn, lastStatus,
                 fleet, fleetObs, history, trace, replayed>>

\* a signal (any of lines 34-48) is sent to an instance whose run has ended:
\* the instance is closed, the send is refused and no handler runs
RejectedSignal ==
  /\ pc = "done"
  /\ rejected' = TRUE
  /\ UNCHANGED <<order_id, payment_id, address, items, approved, canceled,
                 current_step, dispatch_failed_reason, pc, order, result, argItems,
                 argAddress, actArgs, actAttempt, actClock, childPc, childOrder,
                 childErr, invoked, stalled, tries, lastBackoff, lastCall,
                 sigAddress>>
  /\ UNCHANGED <<dbVars, lastRet, firstRet, ledgerOps, lastTxn, txn, lastStatus,
                 fleet, fleetObs, history, trace, replayed>>

SignalError == "signal error"

\* lines 27-30 when the send fails: the await at line 29 raises inside the
\* except block, line 30 is not reached and the error of the send is what
\* leaves run
NotifyParentFails ==
  /\ childPc = "notify"
  /\ childPc' = "failed"
  /\ childErr' = SignalError
  /\ UNCHANGED <<order_id, payment_id, address, items, approved, canceled,
                 current_step, dispatch_failed_reason, pc, order, result, argItems,
                 argAddress, actArgs, actAttempt, actClock, childOrder,
                 invoked, stalled, tries, lastBackoff, lastCall, sigAddress>>
  /\ UNCHANGED <<dbVars, ledgerObs>>

\* the client has received the answer of status()
QueryReturn ==
  /\ lastStatus # NoStatus
  /\ lastStatus' = NoStatus
  /\ UNCHANGED <<order_id, payment_id, address, items, approved, canceled,
                 current_step, dispatch_failed_reason, pc, order, result, argItems,
                 argAddress, actArgs, actAttempt, actClock, childPc, childOrder,
                 childErr, invoked, stalled, tries, lastBackoff, lastCall,
                 sigAddress>>
  /\ UNCHANGED <<dbVars, lastRet, firstRet, ledgerOps, lastTxn, txn, rejected,
                 fleet, fleetObs, history, trace, replayed>>

ClientNext ==
  \/ lastStatus = NoStatus /\ Next
  \/ lastStatus = NoStatus /\ RejectedSignal
  \/ lastStatus = NoStatus /\ NotifyParentFails
  \/ Query
  \/ QueryReturn

SpecClient == Init /\ [][ClientNext]_vars

----------------------------------------------------------------------------
(* OrderWorkflow as a function of the events the server delivers to it:    *)
(* the start, signals, results of the awaited activities and of the        *)
(* sub-saga, the end of a batch of signals, and the timer of the review    *)

Cmd(op, args) == [op |-> op, args |-> args]

\* lines 34-48: the signal handlers
Handled(w, name, arg) ==
  CASE name = "cancel_order" -> [w EXCEPT !.canceled = TRUE]
    [] name = "update_address" -> [w EXCEPT !.address = arg]
    [] name = "approve" -> [w EXCEPT !.approved = TRUE]
    [] name = "dispatch_failed" -> [w EXCEPT !.dispatch_failed_reason = arg]

Failed(w) == [w EXCEPT !.result = "failed"]

\* lines 72-81 once the wait is over
GatePassed(w) ==
  IF GateDecision(w.approved, w.canceled) = "Canceled"
    THEN [w EXCEPT !.result = "Canceled"]
    ELSE [w EXCEPT !.current_step = "charge",
                   !.cmds = Append(@, Cmd("charge_payment_activity",
                                          Args(w.order_id, w.items, w.address,
                                               w.payment_id)))]

\* variant: the review is also over when the worker's own clock says so
ResumedByWorkerClock(w, ev, clock) ==
  CASE ev.type = "start" ->
         [w EXCEPT !.order_id = ev.order_id, !.payment_id = ev.payment_id,
                   !.items = ev.items, !.address = AddrOr(ev.address),
                   !.current_step = "receive",
                   !.cmds = Append(@, Cmd("receive_order_activity",
                                          Args(ev.order_id, ev.items,
                                               AddrOr(ev.address), NULL)))]
    [] ev.type = "activity" /\ ~ev.ok -> Failed(w)
    [] ev.type = "activity" /\ ev.ok /\ w.current_step = "receive" ->
         [w EXCEPT !.order = ev.ret, !.current_step = "validate",
                   !.cmds = Append(@, Cmd("validate_order_activity", ev.ret))]
    [] ev.type = "activity" /\ ev.ok /\ w.current_step = "validate" ->
         [w EXCEPT !.current_step = "manual_review"]
    [] ev.type = "wake" ->
         IF w.approved \/ w.canceled THEN GatePassed(w)
         ELSE IF clock > 0 THEN Failed(w) ELSE w
    [] ev.type = "timer" ->
         IF w.approved \/ w.canceled THEN GatePassed(w) ELSE Failed(w)
    [] ev.type = "activity" /\ ev.ok /\ w.current_step = "charge" ->
         [w EXCEPT !.current_step = "shipping",
                   !.cmds = Append(@, Cmd("ShippingWorkflow",
                                          Args(w.order_id, w.items, w.address, NULL)))]
    [] ev.type = "child" ->
         IF ev.ok THEN [w EXCEPT !.current_step = "shipped", !.result = "Shipped"]
                  ELSE Failed(w)

\* lines 60-93: run resumed by the event ev.  `clock` is the wall clock of
\* the worker that executes the code, which run never reads
Resumed(w, ev, clock) ==
  CASE ev.type = "start" ->
         [w EXCEPT !.order_id = ev.order_id, !.payment_id = ev.payment_id,
                   !.items = ev.items, !.address = AddrOr(ev.address),
                   !.current_step = "receive",
                   !.cmds = Append(@, Cmd("receive_order_activity",
                                          Args(ev.order_id, ev.items,
                                               AddrOr(ev.address), NULL)))]
    [] ev.type = "activity" /\ ~ev.ok -> Failed(w)
    [] ev.type = "activity" /\ ev.ok /\ w.current_step = "receive" ->
         [w EXCEPT !.order = ev.ret, !.current_step = "validate",
                   !.cmds = Append(@, Cmd("validate_order_activity", ev.ret))]
    [] ev.type = "activity" /\ ev.ok /\ w.current_step = "validate" ->
         [w EXCEPT !.current_step = "manual_review"]
    [] ev.type = "wake" ->
         IF w.approved \/ w.canceled THEN GatePassed(w) ELSE w
    [] ev.type = "timer" ->
         IF w.approved \/ w.canceled THEN GatePassed(w) ELSE Failed(w)
    [] ev.type = "activity" /\ ev.ok /\ w.current_step = "charge" ->
         [w EXCEPT !.current_step = "shipping",
                   !.cmds = Append(@, Cmd("ShippingWorkflow",
                                          Args(w.order_id, w.items, w.address, NULL)))]
    [] ev.type = "child" ->
         IF ev.ok THEN [w EXCEPT !.current_step = "shipped", !.result = "Shipped"]
                  ELSE Failed(w)

\* the execution after the event ev
Applied(w, ev, clock) ==
  IF ev.type = "signal" THEN Handled(w, ev.name, ev.arg) ELSE Resumed(w, ev, clock)

\* the events the server can deliver to an execution in state w
StartEvent(id, pid, its, addr) ==
  [type |-> "start", order_id |-> id, payment_id |-> pid, items |-> its,
   address |-> addr]
SignalEvent(name, arg) == [type |-> "signal", name |-> name, arg |-> arg]
ActivityEvent(ok, ret) == [type |-> "activity", ok |-> ok, ret |-> ret]
ChildEvent(ok) == [type |-> "child", ok |-> ok]

SignalEvents ==
  {SignalEvent("cancel_order", "changed mind"), SignalEvent("approve", NULL),
   SignalEvent("update_address", "A"), SignalEvent("dispatch_failed", DispatchError)}

\* what the awaited activity returns: order received hands back its arguments
ActivityReturn(w) ==
  IF w.current_step = "receive" THEN w.cmds[Len(w.cmds)].args ELSE NoArgs

Deliverable(w, id, pid, its, addr) ==
  IF w.result # "none" THEN {}
  ELSE SignalEvents \cup
       CASE w.current_step = "init" -> {StartEvent(id, pid, its, addr)}
         [] w.current_step \in {"receive", "validate", "charge"} ->
              {ActivityEvent(TRUE, ActivityReturn(w)), ActivityEvent(FALSE, NoArgs)}
         [] w.current_step = "manual_review" -> {[type |-> "wake"], [type |-> "timer"]}
         [] w.current_step = "shipping" -> {ChildEvent(TRUE), ChildEvent(FALSE)}
         [] OTHER -> {}

----------------------------------------------------------------------------
(* An execution and its re-execution from the recorded events              *)

MaxHistory == 8
MaxSignals == 2

Last(s) == s[Len(s)]
SignalsIn(h) == Cardinality({i \in DOMAIN h : h[i].type = "signal"})

\* the server delivers an event to the execution and records it
Record(ev) ==
  /\ Len(history) < MaxHistory
  /\ ev \in Deliverable(Last(trace), "o1", "p1", argItems, argAddress)
  /\ ev.type = "signal" => SignalsIn(history) < MaxSignals
  /\ history' = Append(history, ev)
  /\ trace' = Append(trace, Applied(Last(trace), ev, 0))
  /\ UNCHANGED <<soloVars, fleet, fleetObs, replayed>>

\* a worker that re-executes the code, at a later time, applies the next
\* recorded event
ReplayNext ==
  /\ replayed.pos < Len(history)
  /\ replayed' = [pos |-> replayed.pos + 1,
                  w |-> Applied(replayed.w, history[replayed.pos + 1], 1)]
  /\ UNCHANGED <<soloVars, fleet, fleetObs, history, trace>>

\* the worker is restarted and its cache lost: re-execution starts over
ReplayRestart ==
  /\ replayed.pos > 0
  /\ replayed' = [pos |-> 0, w |-> Created]
  /\ UNCHANGED <<soloVars, fleet, fleetObs, history, trace>>

ReplayEvents ==
  SignalEvents
    \cup {StartEvent("o1", "p1", its, addr) : its \in StartItems, addr \in StartAddresses}
    \cup {ActivityEvent(TRUE, Args("o1", its, addr, NULL)) :
            its \in StartItems, addr \in {EMPTY, "S", "A"}}
    \cup {ActivityEvent(TRUE, NoArgs), ActivityEvent(FALSE, NoArgs),
          [type |-> "wake"], [type |-> "timer"], ChildEvent(TRUE), ChildEvent(FALSE)}

ReplayNextStep ==
  \/ \E ev \in ReplayEvents : Record(ev)
  \/ ReplayNext
  \/ ReplayRestart

SpecReplay == Init /\ [][ReplayNextStep]_vars

----------------------------------------------------------------------------
(* Several orders on one server: the executions the server holds, each     *)
(* with its own instance of the workflow class, addressed by workflow id   *)

MaxStarts == 2

WorkflowId(oid) == "order-" \o oid
ShipWorkflowId(oid) == "ship-" \o oid

Key(e) == <<e.id, e.run>>
Running(id) == {e \in fleet : e.id = id /\ e.open}
RunsOf(id) == {e \in fleet : e.id = id}
OrderExecutions(F) == {e \in F : e.kind = "order"}
ChildOf(e) == {c \in fleet : c.kind = "ship" /\ c.parent = Key(e)}
Replace(old, new) == (fleet \ {old}) \cup {new}

\* a closed execution: nothing resumes it and no signal reaches it any more,
\* so of its fields only the outcome is kept
Closed(e, outcome) == [e EXCEPT !.open = FALSE, !.w = [result |-> outcome]]

\* a workflow execution closes when its run returns or raises
Settled(e, w) == IF w.result = "none" THEN [e EXCEPT !.w = w] ELSE Closed(e, w.result)

Refused(kind, id) == [kind |-> kind, to |-> id, refused |-> TRUE]

\* variant: the server starts a second execution under an id that is open
FleetStartUnchecked(oid, pid, its, addr) ==
  LET id == WorkflowId(oid) IN
  /\ Cardinality(OrderExecutions(fleet)) < MaxStarts
  /\ fleet' = fleet \cup
       {[id |-> id, kind |-> "order", run |-> Cardinality(RunsOf(id)) + 1,
         open |-> TRUE, parent |-> NULL,
         args |-> Args(oid, its, addr, pid), w |-> Created]}
  /\ fleetObs' = NoRequest
  /\ UNCHANGED <<soloVars, history, trace, replayed>>

\* start_order: start_workflow under the id order-<order_id> raises while an
\* execution with that id is open, and the endpoint answers 500
FleetStart(oid, pid, its, addr) ==
  LET id == WorkflowId(oid) IN
  /\ IF Running(id) # {}
       THEN fleet' = fleet /\ fleetObs' = Refused("start", id)
       ELSE /\ Cardinality(OrderExecutions(fleet)) < MaxStarts
            /\ fleet' = fleet \cup
                 {[id |-> id, kind |-> "order",
                   run |-> Cardinality(RunsOf(id)) + 1,
                   open |-> TRUE, parent |-> NULL,
                   args |-> Args(oid, its, addr, pid),
                   w |-> Created]}
            /\ fleetObs' = NoRequest
  /\ UNCHANGED <<soloVars, history, trace, replayed>>

\* variant: a signal is handed to every open order execution
FleetSignalBroadcast(oid, name, arg) ==
  /\ Running(WorkflowId(oid)) # {}
  /\ fleet' = {IF e.kind = "order" /\ e.open
                 THEN [e EXCEPT !.w = Handled(e.w, name, arg)]
                 ELSE e : e \in fleet}
  /\ fleetObs' = NoRequest
  /\ UNCHANGED <<soloVars, history, trace, replayed>>

\* the signal endpoints: the handle of order-<order_id> names one execution,
\* the open one with that id
FleetSignal(oid, name, arg) ==
  /\ \E e \in Running(WorkflowId(oid)) :
       fleet' = Replace(e, [e EXCEPT !.w = Handled(e.w, name, arg)])
  /\ fleetObs' = NoRequest
  /\ UNCHANGED <<soloVars, history, trace, replayed>>

\* an order execution is resumed by its start, an activity's result, the
\* end of a batch of signals or the review's timer
FleetRun(e, ev) ==
  /\ e \in fleet /\ e.kind = "order" /\ e.open
  /\ ev \in Deliverable(e.w, e.args.order_id, e.args.payment_id, e.args.items,
                        e.args.address)
  /\ ev.type \notin {"signal", "child"}
  /\ fleet' = Replace(e, Settled(e, Applied(e.w, ev, 0)))
  /\ fleetObs' = NoRequest
  /\ UNCHANGED <<soloVars, history, trace, replayed>>

ShipCreated(oid) == [order_id |-> oid, step |-> "prepare", result |-> "none"]

\* start_child_workflow with id ship-<order_id>
FleetChildStart(e) ==
  LET id == ShipWorkflowId(e.w.order_id) IN
  /\ e \in fleet /\ e.kind = "order" /\ e.open
  /\ e.w.current_step = "shipping" /\ ChildOf(e) = {}
  /\ IF Running(id) # {}
       THEN fleet' = Replace(e, Settled(e, Applied(e.w, ChildEvent(FALSE), 0)))
       ELSE fleet' = fleet \cup
              {[id |-> id, kind |-> "ship", run |-> Cardinality(RunsOf(id)) + 1,
                open |-> TRUE, parent |-> Key(e), args |-> e.w.order,
                w |-> ShipCreated(e.w.order_id)]}
  /\ fleetObs' = NoRequest
  /\ UNCHANGED <<soloVars, history, trace, replayed>>

\* ShippingWorkflow.run up to its next await
FleetShipStep(c, ok) ==
  /\ c \in fleet /\ c.kind = "ship" /\ c.open /\ c.w.step \in {"prepare", "dispatch"}
  /\ fleet' = Replace(c,
       CASE c.w.step = "prepare" /\ ok -> [c EXCEPT !.w.step = "dispatch"]
         [] c.w.step = "prepare" /\ ~ok -> Closed(c, "failed")
         [] c.w.step = "dispatch" /\ ok -> Closed(c, "Shipped")
         [] c.w.step = "dispatch" /\ ~ok -> [c EXCEPT !.w.step = "notify"])
  /\ fleetObs' = NoRequest
  /\ UNCHANGED <<soloVars, history, trace, replayed>>

\* lines 27-30: the sub-saga signals dispatch_failed to its parent and raises
FleetShipNotify(c) ==
  /\ c \in fleet /\ c.kind = "ship" /\ c.open /\ c.w.step = "notify"
  /\ \E p \in fleet :
       /\ Key(p) = c.parent /\ p.open
       /\ fleet' = (fleet \ {c, p}) \cup
            {Closed(c, "failed"),
             [p EXCEPT !.w = Handled(p.w, "dispatch_failed", DispatchError)]}
  /\ fleetObs' = NoRequest
  /\ UNCHANGED <<soloVars, history, trace, replayed>>

\* line 91: the parent's await of its child returns or raises
FleetChildResult(e) ==
  /\ e \in fleet /\ e.kind = "order" /\ e.open /\ e.w.current_step = "shipping"
  /\ \E c \in ChildOf(e) :
       /\ ~c.open
       /\ fleet' = Replace(e, Settled(e, Applied(e.w, ChildEvent(c.w.result = "Shipped"), 0)))
  /\ fleetObs' = NoRequest
  /\ UNCHANGED <<soloVars, history, trace, replayed>>

\* execution_timeout: the server closes the execution, and with it its
\* child (the default parent close policy)
FleetTimeout(e) ==
  /\ e \in fleet /\ e.kind = "order" /\ e.open
  /\ fleet' = {IF x = e THEN Closed(x, "timed out")
               ELSE IF x \in ChildOf(e) /\ x.open THEN Closed(x, "terminated")
               ELSE x : x \in fleet}
  /\ fleetObs' = NoRequest
  /\ UNCHANGED <<soloVars, history, trace, replayed>>

FleetEvents ==
  {ActivityEvent(TRUE, Args(id, <<Item(2)>>, a, NULL)) : id \in OrderIds, a \in {"S", "A"}}
    \cup {StartEvent(id, "p1", <<Item(2)>>, "S") : id \in OrderIds}
    \cup {ActivityEvent(TRUE, NoArgs), ActivityEvent(FALSE, NoArgs),
          [type |-> "wake"], [type |-> "timer"]}

FleetSignals ==
  {<<"cancel_order", "changed mind">>, <<"update_address", "A">>, <<"approve", NULL>>}

FleetNext ==
  \/ \E id \in OrderIds : FleetStart(id, "p1", <<Item(2)>>, "S")
  \/ \E id \in OrderIds, s \in FleetSignals : FleetSignal(id, s[1], s[2])
  \/ \E e \in fleet, ev \in FleetEvents : FleetRun(e, ev)
  \/ \E e \in fleet : FleetChildStart(e)
  \/ \E c \in fleet, ok \in BOOLEAN : FleetShipStep(c, ok)
  \/ \E c \in fleet : FleetShipNotify(c)
  \/ \E e \in fleet : FleetChildResult(e)
  \/ \E e \in fleet : FleetTimeout(e)

FleetInit == Init /\ argItems = <<Item(2)>> /\ argAddress = "S"

SpecFleet == FleetInit /\ [][FleetNext]_vars

----------------------------------------------------------------------------
(* The ledger on its own: the activities invoked directly, in any order,   *)
(* with any arguments, as tests/test_activities.py does.  Events and        *)
(* payments refer to an order by its id, so the operations other than       *)
(* order received are invoked for orders that exist.                        *)

LedgerOrder(id, its, addr) == Args(id, its, addr, NULL)

LedgerStep(res) ==
  /\ ledgerOps < MaxLedgerOps
  /\ ledgerOps' = ledgerOps + 1
  /\ Store(res)
  /\ lastTxn' = [raised |-> ~res.ok, surfaced |-> ~res.ok, dirty |-> FALSE]
  /\ UNCHANGED <<wfVars, txn>>

LedgerReceive(id, its, addr, flaky) ==
  /\ LedgerStep(receive_order_activity(CurDb, id, its, addr, flaky))
  /\ UNCHANGED <<lastRet, firstRet>>

LedgerValidate(id, its, flaky) ==
  /\ HasOrder(orders, id)
  /\ LedgerStep(validate_order_activity(CurDb, LedgerOrder(id, its, EMPTY), flaky))
  /\ UNCHANGED <<lastRet, firstRet>>

LedgerCharge(id, its, pid, flaky) ==
  /\ HasOrder(orders, id)
  /\ LET res == charge_payment_activity(CurDb, LedgerOrder(id, its, EMPTY), pid, flaky)
     IN  /\ LedgerStep(res)
         /\ IF res.ok
              THEN /\ lastRet' = [ret |-> res.ret, asked |-> _sum_amount(its), items |-> its]
                   /\ firstRet' = IF firstRet[pid] = NoRet
                                    THEN [firstRet EXCEPT ![pid] = res.ret]
                                    ELSE firstRet
              ELSE UNCHANGED <<lastRet, firstRet>>

LedgerShipped(id, flaky) ==
  /\ HasOrder(orders, id)
  /\ LedgerStep(mark_shipped_activity(CurDb, LedgerOrder(id, <<>>, EMPTY), flaky))
  /\ UNCHANGED <<lastRet, firstRet>>

LedgerPrepared(id, flaky) ==
  /\ HasOrder(orders, id)
  /\ LedgerStep(prepare_package_activity(CurDb, LedgerOrder(id, <<>>, EMPTY), flaky))
  /\ UNCHANGED <<lastRet, firstRet>>

LedgerDispatched(id, flaky) ==
  /\ HasOrder(orders, id)
  /\ LedgerStep(dispatch_carrier_activity(CurDb, LedgerOrder(id, <<>>, EMPTY), flaky))
  /\ UNCHANGED <<lastRet, firstRet>>

\* the operation of an activity, the simulator having passed
LedgerCall(db, op, ord, pid) ==
  CASE op = "order_received" ->
         order_received(db, ord.order_id, ord.items, AddrOr(ord.address), "ok")
    [] op = "order_validated" -> order_validated(db, ord, "ok")
    [] op = "payment_charged" -> payment_charged(db, ord, pid, "ok")
    [] op = "order_shipped" -> order_shipped(db, ord, "ok")
    [] op = "package_prepared" -> package_prepared(db, ord, "ok")
    [] op = "carrier_dispatched" -> carrier_dispatched(db, ord, "ok")

\* a statement of the operation, or the commit, raises (the connection is
\* lost, say) when the writes to the tables in `keep` have been executed in
\* the session
DbFault(db, raw, keep) ==
  [ok |-> FALSE,
   db |-> Db(IF "orders" \in keep THEN raw.db.orders ELSE db.orders,
             IF "events" \in keep THEN raw.db.events ELSE db.events,
             IF "payments" \in keep THEN raw.db.payments ELSE db.payments),
   ret |-> NoRet]

Tables == {"orders", "events", "payments"}

\* how far an operation can have got when it fails: before its first write,
\* after its write to orders or to payments, after its write to events
FaultPoints == {{}, {"orders"}, {"payments"}, Tables}

\* an activity whose operation fails after some of its writes
LedgerFault(op, id, its, pid, keep) ==
  /\ op # "order_received" => HasOrder(orders, id)
  /\ ledgerOps < MaxLedgerOps
  /\ LET raw == LedgerCall(CurDb, op, LedgerOrder(id, its, EMPTY), pid)
         bad == DbFault(CurDb, raw, keep)
         res == db_session(CurDb, bad)
     IN  /\ raw.ok
         /\ ledgerOps' = ledgerOps + 1
         /\ Store(res)
         /\ lastTxn' = [raised |-> TRUE, surfaced |-> ~res.ok,
                        dirty |-> bad.db # CurDb]
  /\ UNCHANGED <<wfVars, lastRet, firstRet, txn>>

LedgerInit == Init /\ argItems = <<>> /\ argAddress = EMPTY

LedgerNext ==
  \/ \E id \in OrderIds, its \in LedgerItems, addr \in StartAddresses,
        flaky \in FlakyOutcomes : LedgerReceive(id, its, addr, flaky)
  \/ \E id \in OrderIds, its \in LedgerItems, flaky \in FlakyOutcomes :
        LedgerValidate(id, its, flaky)
  \/ \E id \in OrderIds, its \in LedgerItems, pid \in PaymentIds,
        flaky \in FlakyOutcomes : LedgerCharge(id, its, pid, flaky)
  \/ \E id \in OrderIds, flaky \in FlakyOutcomes : LedgerShipped(id, flaky)
  \/ \E id \in OrderIds, flaky \in FlakyOutcomes : LedgerPrepared(id, flaky)
  \/ \E id \in OrderIds, flaky \in FlakyOutcomes : LedgerDispatched(id, flaky)
  \/ \E op \in Operations, id \in OrderIds, keep \in FaultPoints :
        \E its \in IF op \in {"order_received", "order_validated", "payment_charged"}
                      THEN LedgerItems ELSE {<<>>},
           pid \in IF op = "payment_charged" THEN PaymentIds ELSE {NULL} :
          LedgerFault(op, id, its, pid, keep)

SpecLedger == LedgerInit /\ [][LedgerNext]_vars

----------------------------------------------------------------------------
(* Concurrent payment charged: two invocations, each in its own            *)
(* transaction (db_session), their statements interleaved.  The store is   *)
(* PostgreSQL at its default isolation level (db.py sets none): a          *)
(* statement sees the rows committed before it began and the writes of its *)
(* own transaction, and an INSERT whose key another open transaction has   *)
(* inserted waits for that transaction to end.                             *)

InFlight(t) == txn[t].pc \in {"flaky", "insert", "select", "event", "commit"}

\* another open transaction holds an uncommitted Payments row with this key
HeldByOther(t, pid) ==
  \E u \in Txns \ {t} :
    InFlight(u) /\ txn[u].ins # <<>> /\ txn[u].ins[1].payment_id = pid

\* the rows a statement of t sees
Visible(t) == payments \o txn[t].ins

OnlyTxn(t, rec) ==
  /\ txn' = [txn EXCEPT ![t] = rec]
  /\ UNCHANGED <<wfVars, dbVars, lastRet, firstRet, ledgerOps, lastTxn>>

\* charge_payment_activity is invoked: the session opens
TxBegin(t, id, its, pid) ==
  /\ txn[t].pc = "idle"
  /\ OnlyTxn(t, [txn[t] EXCEPT !.pc = "flaky", !.order = LedgerOrder(id, its, EMPTY),
                                !.pid = pid])

\* line 84: await flaky_call()
TxFlaky(t, flaky) ==
  /\ txn[t].pc = "flaky"
  /\ OnlyTxn(t, [txn[t] EXCEPT !.pc = IF flaky = "ok" THEN "insert" ELSE "failed"])

\* variant: the key is checked against committed rows only
TxInsertNoWait(t) ==
  /\ txn[t].pc = "insert"
  /\ LET pid == txn[t].pid
         new == [payment_id |-> pid, order_id |-> txn[t].order.order_id,
                 amount |-> _sum_amount(txn[t].order.items), status |-> "charged"]
     IN  IF HasPayment(payments, pid)
           THEN OnlyTxn(t, [txn[t] EXCEPT !.pc = "select"])
           ELSE OnlyTxn(t, [txn[t] EXCEPT !.pc = "select", !.ins = <<new>>])

\* lines 86-98: INSERT INTO payments ... ON CONFLICT (payment_id) DO NOTHING
TxInsert(t) ==
  /\ txn[t].pc = "insert"
  /\ LET pid == txn[t].pid
         new == [payment_id |-> pid, order_id |-> txn[t].order.order_id,
                 amount |-> _sum_amount(txn[t].order.items), status |-> "charged"]
     IN  IF HasPayment(payments, pid)
           THEN OnlyTxn(t, [txn[t] EXCEPT !.pc = "select"])
         ELSE IF HeldByOther(t, pid)
           THEN /\ ~txn[t].waited
                /\ OnlyTxn(t, [txn[t] EXCEPT !.waited = TRUE])
         ELSE OnlyTxn(t, [txn[t] EXCEPT !.pc = "select", !.ins = <<new>>])

\* lines 100-108: read the row back; none found raises
TxSelect(t) ==
  /\ txn[t].pc = "select"
  /\ IF HasPayment(Visible(t), txn[t].pid)
       THEN LET row == FirstPayment(Visible(t), txn[t].pid)
            IN  OnlyTxn(t, [txn[t] EXCEPT !.pc = "event",
                              !.row = [status |-> row.status, amount |-> row.amount,
                                       payment_id |-> row.payment_id]])
       ELSE OnlyTxn(t, [txn[t] EXCEPT !.pc = "failed", !.ins = <<>>])

\* lines 110-125: INSERT INTO events, with the amount and status of the row
TxEvent(t) ==
  /\ txn[t].pc = "event"
  /\ OnlyTxn(t, [txn[t] EXCEPT !.pc = "commit",
                   !.evt = <<Event(txn[t].order.order_id, "payment_charged",
                                   [payment_id |-> txn[t].pid,
                                    amount |-> txn[t].row.amount,
                                    status |-> txn[t].row.status])>>])

\* line 127 and db.py:46-50: the body returns and the session commits, or
\* the commit raises and the session rolls back
TxCommit(t, committed) ==
  /\ txn[t].pc = "commit"
  /\ IF committed
       THEN /\ payments' = payments \o txn[t].ins
            /\ events' = events \o txn[t].evt
            /\ txn' = [txn EXCEPT ![t] = [@ EXCEPT !.pc = "done", !.ins = <<>>,
                                                    !.evt = <<>>, !.ret = txn[t].row]]
       ELSE /\ txn' = [txn EXCEPT ![t] = [@ EXCEPT !.pc = "failed", !.ins = <<>>,
                                                    !.evt = <<>>]]
            /\ UNCHANGED <<payments, events>>
  /\ UNCHANGED <<wfVars, orders, lastRet, firstRet, ledgerOps, lastTxn>>

ConcurrentNext ==
  \/ \E t \in Txns, id \in OrderIds, its \in LedgerItems, pid \in PaymentIds :
        TxBegin(t, id, its, pid)
  \/ \E t \in Txns, flaky \in FlakyOutcomes : TxFlaky(t, flaky)
  \/ \E t \in Txns : TxInsert(t)
  \/ \E t \in Txns : TxSelect(t)
  \/ \E t \in Txns : TxEvent(t)
  \/ \E t \in Txns, committed \in BOOLEAN : TxCommit(t, committed)

SpecConcurrent == LedgerInit /\ [][ConcurrentNext]_vars

----------------------------------------------------------------------------
(* Properties                                                              *)

StepRank(step) == CHOOSE i \in DOMAIN CanonicalSteps : CanonicalSteps[i] = step
IsCanonical(step) == \E i \in DOMAIN CanonicalSteps : CanonicalSteps[i] = step

\* C1: current_step never moves backwards in init < receive < validate <
\* manual_review < charge < shipping < shipped; the one departure allowed is
\* manual_review -> canceled.
C1_StepNeverMovesBack ==
  [][current_step' # current_step =>
       \/ current_step = "manual_review" /\ current_step' = "canceled"
       \/ /\ IsCanonical(current_step) /\ IsCanonical(current_step')
          /\ StepRank(current_step') > StepRank(current_step)]_vars

\* a run that went through every step, with a cancellation recorded on the way
C1_Witness ==
  current_step = "shipped" /\ result = "Shipped" /\ canceled

\* C2: when canceled is true as the manual_review gate is evaluated (approved
\* or not), the run returns Canceled, and a run that returned Canceled has
\* invoked neither payment charged nor the shipping sub-saga.
C2_CancelWinsAtGate ==
  [][/\ (pc = "manual_review" /\ canceled /\ pc' # pc)
          => (result' = "Canceled" /\ pc' = "done")
     /\ result' = "Canceled"
          => ("payment_charged" \notin invoked' /\ childPc' = "none")
     /\ result = "Canceled" => result' = "Canceled"]_vars

\* the gate was evaluated with both flags set
C2_Witness ==
  result = "Canceled" /\ approved /\ canceled /\ current_step = "manual_review"

\* C3: with approved true and canceled false at the gate the run goes on to
\* charge, from charge only to shipping (or a failure); a cancel_order applied
\* during charge or shipping sets canceled and changes nothing else, and the
\* result never becomes Canceled.
C3_LateCancelIgnored ==
  [][/\ (pc = "manual_review" /\ approved /\ ~canceled /\ pc' # pc)
          => (pc' = "charge" /\ current_step' = "charge" /\ actAttempt' = 1)
     /\ (pc = "charge" /\ pc' # pc)
          => \/ pc' = "shipping" /\ current_step' = "shipping" /\ childPc' = "start"
             \/ result' = "failed"
     /\ (pc \in {"charge", "shipping"} /\ canceled' # canceled)
          => /\ canceled'
             /\ UNCHANGED <<pc, current_step, result, actArgs, actAttempt, actClock,
                            childPc, childOrder, orders, events, payments>>
     /\ pc \in {"charge", "shipping"} => result' # "Canceled"
     /\ result = "Shipped" => result' = "Shipped"]_vars

\* a cancellation arrived after the gate and the run still shipped
C3_Witness ==
  result = "Shipped" /\ approved /\ canceled /\ "carrier_dispatched" \in invoked

PaymentRows(pid) == {i \in DOMAIN payments : payments[i].payment_id = pid}

\* The ledger once order received has succeeded for both orders: what two
\* invocations of LedgerReceive leave behind
TwoOrdersReceived ==
  receive_order_activity(
    receive_order_activity(Db(<<>>, <<>>, <<>>), "o1", <<Item(1)>>, "S", "ok").db,
    "o2", <<Item(2)>>, EMPTY, "ok").db

LedgerTwoOrdersInit ==
  /\ InitSaga /\ argItems = <<>> /\ argAddress = EMPTY
  /\ orders = TwoOrdersReceived.orders
  /\ events = TwoOrdersReceived.events
  /\ payments = TwoOrdersReceived.payments

\* payment charged invoked for either order, with any items and payment_id
LedgerChargeNext ==
  \E id \in OrderIds, its \in LedgerItems, pid \in PaymentIds,
     flaky \in FlakyOutcomes : LedgerCharge(id, its, pid, flaky)

SpecLedgerTwoOrders == LedgerTwoOrdersInit /\ [][LedgerChargeNext]_vars

\* C4: however often payment charged succeeds for one payment_id, with the
\* same or different items, there is one Payments row for it and every
\* invocation returns the {status, amount, payment_id} of that first row.
C4_ChargeIdempotent ==
  /\ \A pid \in PaymentIds :
       /\ Cardinality(PaymentRows(pid)) <= 1
       /\ firstRet[pid] # NoRet =>
            /\ Cardinality(PaymentRows(pid)) = 1
            /\ LET row == FirstPayment(payments, pid)
               IN  firstRet[pid] = [status |-> row.status, amount |-> row.amount,
                                    payment_id |-> row.payment_id]
  /\ lastRet.ret # NoRet => lastRet.ret = firstRet[lastRet.ret.payment_id]

\* a later invocation whose items ask for another amount than the row holds
C4_Witness ==
  /\ lastRet.ret # NoRet
  /\ lastRet.asked # lastRet.ret.amount
  /\ Cardinality(PaymentRows(lastRet.ret.payment_id)) = 1

ActivitySteps == {"receive", "validate", "charge"}

\* C5: a step whose operation fails every time is attempted exactly 3 times,
\* then fails fatally and the run ends with an error; no 4th attempt is made.
C5_ThreeAttemptsThenFatal ==
  [][/\ tries' <= 3
     /\ (pc \in ActivitySteps /\ pc' = "done") => (result' = "failed" /\ tries' = 3)
     /\ (childPc \in {"prepare", "dispatch"} /\ childPc' \in {"notify", "failed"})
          => tries' = 3
     /\ (childPc = "failed" /\ pc' # pc) => (pc' = "done" /\ result' = "failed")]_vars

\* the receive step has failed after its third attempt
C5_Witness ==
  result = "failed" /\ current_step = "receive" /\ tries = 3 /\ orders = <<>>

\* C6: a validation failure of validate (empty items) is not retried: the
\* attempt in which order validated rejects the items ends the run at once.
C6_ValidationNotRetried ==
  [][(/\ pc = "validate"
      /\ actArgs.items = <<>>
      /\ (actAttempt' # actAttempt \/ pc' # pc)
      /\ lastCall'.op = "order_validated"
      /\ lastCall'.flaky = "ok")
       => (pc' = "done" /\ result' = "failed" /\ tries' = 1)]_vars

C8_NoChargeWithoutApprove ==
  ~approved =>
     /\ "payment_charged" \notin invoked
     /\ current_step \notin {"charge", "shipping", "shipped"}
     /\ result # "Shipped"
     /\ payments = <<>>
     /\ childPc = "none"

\* the wait has elapsed with neither flag set
C8_Witness ==
  /\ pc = "done" /\ current_step = "manual_review" /\ ~approved /\ ~canceled
  /\ "payment_charged" \notin invoked

\* C9 as stated: when the wait elapses with neither flag set the instance
\* stays suspended at manual_review and does not terminate.
C9_StaysSuspended ==
  (current_step = "manual_review" /\ ~approved /\ ~canceled)
     => (pc = "manual_review" /\ result = "none")

\* C9, amended: when the wait elapses with neither flag set the run ends with
\* the timeout error; current_step stays manual_review, canceled stays false,
\* the result is not Canceled and charge is not invoked.
C9_TimeoutEndsRun ==
  [][(pc = "manual_review" /\ ~approved /\ ~canceled /\ pc' # pc)
       => /\ pc' = "done" /\ result' = "failed"
          /\ current_step' = "manual_review"
          /\ ~canceled' /\ ~approved'
          /\ "payment_charged" \notin invoked']_vars

\* the run has ended on the timeout, after receive and validate completed
C9_Witness ==
  /\ result = "failed" /\ current_step = "manual_review" /\ ~approved /\ ~canceled
  /\ invoked = {"order_received", "order_validated"}

AfterValidate == {"payment_charged", "package_prepared", "carrier_dispatched"}

\* C10 as stated, already for updates applied once run has begun: after
\* update_address(A), update_address(B) the address is B, and every activity
\* invoked after B was applied (validate, charge, the sub-saga's operations)
\* receives address B.
C10_EveryActivityUsesLatest ==
  /\ (sigAddress.sig # NULL /\ ~sigAddress.early) => address = sigAddress.sig
  /\ (/\ lastCall.op \in AfterValidate \cup {"order_validated"}
      /\ lastCall.sigAtCall # NULL /\ ~lastCall.earlyAtCall)
       => lastCall.address = lastCall.sigAtCall

\* C10, amended: the address is the value of the latest write, the writes
\* being the update_address signals in arrival order and the assignment of
\* the start argument when run begins; the charge step and the shipping
\* sub-saga receive the address that was current when the step was scheduled
\* (the sub-saga: when it was spawned), in every attempt, and validate
\* receives the address of the record that receive returned.
C10_LastWriteWins ==
  /\ sigAddress.sig # NULL =>
       address = IF sigAddress.early /\ pc # "init"
                   THEN AddrOr(argAddress) ELSE sigAddress.sig
  /\ (lastCall.op \in AfterValidate /\ lastCall.sigAtSched # NULL)
       => lastCall.address = IF lastCall.earlyAtSched
                               THEN AddrOr(argAddress) ELSE lastCall.sigAtSched
  /\ lastCall.op = "order_validated" => lastCall.address = order.address

\* A then B were applied during the run and the charge received B
C10_Witness ==
  /\ sigAddress.prev = "A" /\ sigAddress.sig = "B" /\ ~sigAddress.early
  /\ address = "B"
  /\ lastCall.op = "payment_charged" /\ lastCall.address = "B"

FailingSteps == {"receive", "validate", "charge", "shipping"}
StepBefore(step) == CanonicalSteps[StepRank(step) - 1]

\* C12 (as stated): when receive, validate, charge or shipping fails fatally,
\* current_step is the value it had before the failing step began, the last
\* step that completed.
C12_FailedStepRolledBack ==
  [][(pc \in FailingSteps /\ result = "none" /\ result' = "failed")
        => current_step' = StepBefore(pc)]_vars

\* C12 (amended): when receive, validate, charge or shipping fails fatally,
\* current_step keeps the value it was given when the failing step began,
\* which names the step that failed, and keeps it from then on.
C12_FailedStepStaysCurrent ==
  [][/\ (pc \in FailingSteps /\ result = "none" /\ result' = "failed")
          => (current_step' = pc /\ current_step' = current_step)
     /\ result = "failed" => current_step' = current_step]_vars

\* charge has failed for good and the status reports charge
C12_Witness ==
  /\ result = "failed" /\ current_step = "charge"
  /\ lastCall.op = "payment_charged" /\ lastCall.flaky = "failed"

\* the Event rows of a type written for the run's order, and the steps of
\* the run whose activity has completed
EventCount(type) ==
  Cardinality({i \in DOMAIN events :
                 events[i].type = type /\ events[i].order_id = "o1"})

StepDone(op) ==
  CASE op = "order_received" -> StepRank(current_step) >= StepRank("validate")
    [] op = "order_validated" -> StepRank(current_step) >= StepRank("manual_review")
    [] op = "payment_charged" -> StepRank(current_step) >= StepRank("shipping")
    [] op = "package_prepared" -> childPc \in {"dispatch", "notify", "completed"}
                                  \/ childErr # NULL
    [] op = "carrier_dispatched" -> childPc = "completed"
    [] OTHER -> FALSE

\* C13 (as stated): every step of the run that has completed has exactly one
\* Event row of its type for the order, whatever attempts failed or timed
\* out before, and a step that has not completed has none: attempts that
\* failed or timed out append no Event row.
C13_OneEventPerCompletedStep ==
  \A op \in Operations : EventCount(op) = IF StepDone(op) THEN 1 ELSE 0

\* C14: approved and canceled are monotonic: no step of the instance, signal
\* or step transition, takes either flag from true back to false.
C14_FlagsMonotonic ==
  [][(approved => approved') /\ (canceled => canceled')]_vars

\* both flags are set and are still set when the run, having gone through
\* charge, has failed at shipping
C14_Witness ==
  /\ approved /\ canceled
  /\ result = "failed" /\ current_step = "shipping"
  /\ "payment_charged" \in invoked

\* C15 (as stated): dispatch_failed_reason is set at most once: once it holds
\* a reason, no dispatch_failed signal and no other step changes its value.
C15_ReasonSetOnce ==
  [][dispatch_failed_reason # NULL
       => dispatch_failed_reason' = dispatch_failed_reason]_vars

\* the order of the persisted states of an Order row
StateRank(state) ==
  CASE state = "received" -> 1 [] state = "validated" -> 2 [] state = "shipped" -> 3

\* C16 (as stated): under any sequence of ledger operations, repeats and
\* re-runs for an existing order included, the persisted state of every
\* order only moves forward through received, validated, shipped: no
\* operation changes it to an earlier value.
C16_StateOnlyForward ==
  [][\A id \in OrderIds :
       HasOrder(orders, id)
         => /\ HasOrder(orders', id)
            /\ StateRank(OrderRow(orders', id).state)
                 >= StateRank(OrderRow(orders, id).state)]_vars

\* C17: every ledger operation is atomic: an invocation that fails, in the
\* simulator, on the validation error or after some of its writes, leaves
\* the orders, events and payments tables exactly as they were before it,
\* and its caller gets the error.
C17_OperationsAtomic ==
  [][(ledgerOps' # ledgerOps /\ lastTxn'.raised)
        => (lastTxn'.surfaced /\ UNCHANGED dbVars)]_vars

\* an invocation failed after writing within its transaction, the caller got
\* the error, and the rows committed before it are all there is
C17_Witness ==
  /\ lastTxn.raised /\ lastTxn.dirty /\ lastTxn.surfaced
  /\ Len(orders) = 1 /\ Len(events) = 1 /\ payments = <<>>

\* C18: two payment charged invocations for one payment_id running side by
\* side are serialized by the unique key of the Payments table, in every
\* interleaving of their statements: no two open transactions hold a row of
\* the same key, there is at most one Payments row per payment_id, and every
\* invocation that has succeeded returned the amount and status of that row.
C18_ConcurrentChargesSerialize ==
  /\ \A pid \in PaymentIds : Cardinality(PaymentRows(pid)) <= 1
  /\ \A t \in Txns :
       /\ (InFlight(t) /\ txn[t].ins # <<>>)
            => (~HeldByOther(t, txn[t].pid) /\ ~HasPayment(payments, txn[t].pid))
       /\ txn[t].pc = "done"
            => /\ HasPayment(payments, txn[t].pid)
               /\ LET row == FirstPayment(payments, txn[t].pid)
                  IN  txn[t].ret = [status |-> row.status, amount |-> row.amount,
                                    payment_id |-> row.payment_id]

\* both invocations for p1 succeeded, asking for different amounts; the
\* INSERT of the second had to wait for the first to commit, and both
\* returned the one row's amount
C18_Witness ==
  /\ txn[1].pc = "done" /\ txn[2].pc = "done"
  /\ txn[1].pid = "p1" /\ txn[2].pid = "p1"
  /\ _sum_amount(txn[1].order.items) = 1 /\ _sum_amount(txn[2].order.items) = 2
  /\ txn[2].waited
  /\ Cardinality(PaymentRows("p1")) = 1
  /\ txn[1].ret.amount = 1 /\ txn[2].ret.amount = 1

\* C19: after the n-th failed attempt of a step the wait before attempt n+1
\* is min(200 ms * 2^(n-1), 1 s): under both policies 1, 2, 4 units for n =
\* 1, 2, 3 and the ceiling of 5 units from there on, and in every run the
\* 2nd attempt starts 1 unit (200 ms) and the 3rd 2 units (400 ms) after the
\* failed attempt ended, never more than 5 units (1 s).
C19_BackoffSchedule ==
  /\ \A opts \in {ACT_OPTS, SHIP_ACT_OPTS} :
       /\ Backoff(opts, 1) = 1 /\ Backoff(opts, 2) = 2 /\ Backoff(opts, 3) = 4
       /\ \A n \in 4..8 : Backoff(opts, n) = 5
  /\ [][actAttempt' = actAttempt + 1 /\ actAttempt >= 1
          => /\ lastBackoff' = (IF actAttempt = 1 THEN 1 ELSE 2)
             /\ lastBackoff' <= 5
             /\ actClock' >= actClock + lastBackoff'
             /\ actClock' <= actClock + 5 + lastBackoff']_vars

\* the third attempt of charge is about to start, 400 ms after the second failed
C19_Witness ==
  /\ pc = "charge" /\ actAttempt = 3 /\ tries = 2 /\ lastBackoff = 2

\* the policy of the step in flight
OptsInFlight == IF childPc \in {"prepare", "dispatch"} THEN SHIP_ACT_OPTS ELSE ACT_OPTS

\* C20: retrying stops at the attempt cap (3) or at the overall deadline (15
\* units = 3 s from scheduling), whichever comes first.  No attempt is
\* numbered above 3; every attempt starts before the overall deadline and
\* may run for at most 5 units (1 s) and not past the overall deadline;
\* whatever its operation does, it completes only before the overall
\* deadline and is followed by another attempt only if that one is at most
\* the 3rd and starts before the overall deadline.  When the first two
\* attempts each took their full 5 units, the 3rd starts at 13 with 2 units
\* left: if it stalls too, the step fails at 15, on the overall deadline.
C20_RetryStops ==
  /\ [](actAttempt >= 1 =>
          LET opts == OptsInFlight
              budget == AttemptBudget(opts, actClock)
          IN  /\ actAttempt <= 3
              /\ actClock < 15
              /\ budget >= 1 /\ budget <= 5 /\ actClock + budget <= 15
              /\ \A ok \in BOOLEAN, d \in 0..6 :
                   LET r == RetryExecutor(opts, actAttempt, actClock, ok, d)
                   IN  /\ r.status = "completed" => (ok /\ d < 5 /\ r.clock < 15)
                       /\ r.status = "retry" => (r.attempt <= 3 /\ r.clock < 15)
                       /\ r.clock - r.wait - actClock <= 5
              /\ (actAttempt = 3 /\ actClock = 13)
                   => /\ budget = 2
                      /\ RetryExecutor(opts, 3, 13, FALSE, budget).status = "failed"
                      /\ RetryExecutor(opts, 3, 13, FALSE, budget).clock = 15)
  /\ [][/\ (actAttempt = 1 /\ actAttempt' = 2)
             => (actClock' = 6 <=> actClock' - lastBackoff' - actClock = 5)
        /\ (actAttempt = 2 /\ actAttempt' = 3 /\ actClock = 6)
             => (actClock' = 13 <=> actClock' - lastBackoff' - actClock = 5)
        /\ (actAttempt = 3 /\ tries' = 3 /\ lastCall'.flaky = "failed")
             => (pc' = "done" \/ childPc' \in {"notify", "failed"})]_vars

\* receive has failed in its 3rd attempt, which started at 2.6 s, after two
\* attempts that each ran for the full second
C20_Witness ==
  /\ result = "failed" /\ current_step = "receive"
  /\ tries = 3 /\ actAttempt = 3 /\ actClock = 13

\* C21 (as stated): an update_address applied before run began is not lost:
\* when no later update has replaced it, it is the address of the instance
\* once run has begun, and the address every step invoked from then on
\* receives.
C21_EarlyUpdateKept ==
  /\ (pc # "init" /\ sigAddress.sig # NULL /\ sigAddress.early)
       => address = sigAddress.sig
  /\ (lastCall.op # NULL /\ lastCall.sigAtCall # NULL /\ lastCall.earlyAtCall)
       => lastCall.address = lastCall.sigAtCall

AtOrBeforeGate == pc \in {"init", "receive", "validate", "manual_review"}

\* C23 (as stated): once approve has been applied while cancel_order has not,
\* with the instance at or before the manual_review gate, a cancel_order that
\* follows never turns the outcome into Canceled, whenever the gate is
\* evaluated.
C23_ApproveThenCancelShips ==
  []((approved /\ ~canceled /\ AtOrBeforeGate) => [](result # "Canceled"))

\* C24: a cancel_order applied before the instance reaches manual_review does
\* not stop receive or validate: the run goes on to the gate and, unless
\* receive or validate fails, eventually returns Canceled with canceled true;
\* a run that returned Canceled has invoked both operations.
C24_EarlyCancelEndsCanceled ==
  /\ (canceled /\ pc \in {"init", "receive", "validate"})
       ~> \/ result = "Canceled" /\ canceled
          \/ result = "failed" /\ current_step \in {"receive", "validate"}
  /\ [](result = "Canceled"
          => canceled /\ {"order_received", "order_validated"} \subseteq invoked)

\* a run returned Canceled whose validate attempt was made with the
\* cancellation already applied and approve never sent
C24_Witness ==
  /\ result = "Canceled" /\ ~approved
  /\ lastCall.op = "order_validated" /\ lastCall.canceledAtCall

\* the run ended because an operation's last attempt failed
StepFailed == result = "failed" /\ lastCall.flaky = "failed"

\* C25 (as stated): a saga started with items, with approve applied and
\* cancel_order not applied before the gate, eventually returns Shipped with
\* step shipped, approved true and canceled false, unless a step's operation
\* fails.
C25_ApprovedRunShipsUncanceled ==
  (approved /\ ~canceled /\ AtOrBeforeGate /\ argItems # <<>>)
    ~> \/ /\ result = "Shipped" /\ current_step = "shipped"
          /\ approved /\ ~canceled
       \/ StepFailed
       \/ result = "Canceled"

\* C25 (amended): such a saga eventually returns Shipped with step shipped and
\* approved true, unless a step's operation fails or cancel_order is applied
\* before the gate is evaluated; canceled is true in the final status exactly
\* when cancel_order was applied after the gate had passed, never when it was
\* applied at or before the gate.
C25_ApprovedRunShips ==
  /\ (approved /\ ~canceled /\ AtOrBeforeGate /\ argItems # <<>>)
       ~> \/ result = "Shipped" /\ current_step = "shipped" /\ approved
          \/ StepFailed
          \/ result = "Canceled"
  /\ [][(canceled /\ AtOrBeforeGate)
          => (AtOrBeforeGate' \/ (pc' = "done" /\ result' # "Shipped"))]_vars
  /\ [](result = "Shipped" => current_step = "shipped" /\ approved)

\* a run returned Shipped although cancel_order was applied on its way
C25_Witness ==
  result = "Shipped" /\ current_step = "shipped" /\ approved /\ canceled

\* the fixed order of the operations of one instance
OperationOrder == <<"order_received", "order_validated", "payment_charged",
                    "package_prepared", "carrier_dispatched">>

\* an operation has been attempted only if the one before it has been
\* attempted and has succeeded, and payment charged only with approved set
InvokedInOrder ==
  /\ \A i \in 2..Len(OperationOrder) :
       OperationOrder[i] \in invoked
         => /\ OperationOrder[i-1] \in invoked
            /\ EventCount(OperationOrder[i-1]) >= 1
  /\ "payment_charged" \in invoked => approved

\* this step makes an attempt of an operation
AttemptMade ==
  invoked' # invoked \/ tries' # tries \/ lastCall' # lastCall

\* a call of an operation of this instance is still running
CallInProgress == \E z \in stalled : ~z.returned

\* C26 (as stated): the operations of one instance are invoked one at a time
\* in the fixed order, each first attempted only after the one before it has
\* succeeded, payment charged only after the gate has passed with approved
\* true, and no attempt is made while a call of an operation of the instance
\* is still in progress.
C26_OneOperationAtATime ==
  /\ []InvokedInOrder
  /\ [][AttemptMade => ~CallInProgress]_vars

PaymentCharged ==
  \E i \in DOMAIN payments :
    payments[i].payment_id = payment_id /\ payments[i].status = "charged"

\* C28: when the shipping step fails after charge succeeded, the run ends in
\* a fatal failure and the Payments row of payment_id is still there with
\* status charged; no step of the instance removes or changes a Payments row.
C28_NoCompensation ==
  /\ []((result = "failed" /\ current_step = "shipping") => PaymentCharged)
  /\ [][/\ (pc = "shipping" /\ childPc = "failed" /\ pc' # pc)
             => (result' = "failed" /\ PaymentCharged')
        /\ \A i \in DOMAIN payments :
             i \in DOMAIN payments' /\ payments'[i] = payments[i]]_vars

\* carrier dispatched used up its attempts after the payment was charged
C28_Witness ==
  /\ result = "failed" /\ current_step = "shipping" /\ PaymentCharged
  /\ lastCall.op = "carrier_dispatched" /\ lastCall.flaky = "failed"

\* C29 (as stated): whether or not the dispatch_failed signal can be sent, a
\* sub-saga whose dispatch step failed ends in failure with the error of the
\* dispatch step as the failure it surfaces, and the run never returns
\* Shipped.
C29_SendFailureKeepsDispatchError ==
  [][/\ (childPc = "notify" /\ childPc' # childPc)
          => (childPc' = "failed" /\ childErr' = DispatchError)
     /\ childPc = "failed" => (childPc' = "failed" /\ result' # "Shipped")]_vars

\* C30: a status() call returns exactly the current current_step (as step),
\* approved, canceled, address and dispatch_failed_reason, and neither the
\* call nor its return changes a field of the instance, a persisted table,
\* the position of the run or of the sub-saga, or the schedule of the
\* pending attempt.
C30_StatusIsPureSnapshot ==
  [][lastStatus' # lastStatus
       => /\ lastStatus' # NoStatus
             => /\ lastStatus'.step = current_step
                /\ lastStatus'.approved = approved
                /\ lastStatus'.canceled = canceled
                /\ lastStatus'.address = address
                /\ lastStatus'.dispatch_failed_reason = dispatch_failed_reason
                /\ DOMAIN lastStatus' = {"step", "approved", "canceled", "address",
                                         "dispatch_failed_reason"}
          /\ UNCHANGED <<order_id, payment_id, address, items, approved, canceled,
                         current_step, dispatch_failed_reason>>
          /\ UNCHANGED <<orders, events, payments>>
          /\ UNCHANGED <<pc, order, result, actArgs, actAttempt, actClock,
                         childPc, childOrder, childErr, stalled>>]_vars

\* status() was called after an address update and a reported dispatch
\* failure, and returned both
C30_Witness ==
  /\ lastStatus # NoStatus
  /\ lastStatus.address \in SignalAddresses
  /\ lastStatus.address # argAddress
  /\ lastStatus.dispatch_failed_reason = DispatchError
  /\ lastStatus.step = "shipping"

\* C31: a signal changes only its own field: a step that changes canceled,
\* approved or dispatch_failed_reason, or that changes address once run has
\* begun, changes no other field of the instance; current_step changes only
\* as run moves on, never by a signal; order_id, payment_id and items are
\* assigned when run begins and never changed afterwards.
C31_SignalsChangeOwnField ==
  [][/\ canceled' # canceled
          => UNCHANGED <<approved, address, dispatch_failed_reason,
                         current_step, items, order_id, payment_id>>
     /\ approved' # approved
          => UNCHANGED <<canceled, address, dispatch_failed_reason,
                         current_step, items, order_id, payment_id>>
     /\ (address' # address /\ pc # "init")
          => UNCHANGED <<approved, canceled, dispatch_failed_reason,
                         current_step, items, order_id, payment_id>>
     /\ dispatch_failed_reason' # dispatch_failed_reason
          => UNCHANGED <<approved, canceled, address,
                         current_step, items, order_id, payment_id>>
     /\ current_step' # current_step => pc' # pc
     /\ pc # "init" => UNCHANGED <<items, order_id, payment_id>>]_vars

\* all four signals have been applied to a run that is past its gate, and
\* items is still the list the saga was started with
C31_Witness ==
  /\ approved /\ canceled /\ address \in SignalAddresses
  /\ dispatch_failed_reason \in ExternalReasons
  /\ pc = "charge" /\ current_step = "charge"
  /\ items = argItems /\ items # <<>>

\* C37: when prepare package uses up its attempts the sub-saga fails at once:
\* dispatch carrier is never attempted, no dispatch_failed is sent, and the
\* parent fails at shipping without a reason reported by the sub-saga; the
\* sub-saga sends dispatch_failed only after dispatch carrier has failed.
C37_PrepareFailureUnreported ==
  /\ [][/\ (childPc = "prepare" /\ childPc' \notin {"prepare", "dispatch"})
             => (childPc' = "failed" /\ UNCHANGED dispatch_failed_reason)
        /\ (dispatch_failed_reason' # dispatch_failed_reason
              /\ dispatch_failed_reason' = DispatchError)
             => (childPc = "notify" /\ "carrier_dispatched" \in invoked)
        /\ (childPc = "failed" /\ pc = "shipping" /\ pc' # pc)
             => (result' = "failed" /\ current_step' = "shipping")]_vars
  /\ [](childPc = "failed" /\ "carrier_dispatched" \notin invoked
          => dispatch_failed_reason # DispatchError /\ childErr = NULL)

\* the run has failed at shipping because prepare package used up its
\* attempts, and no reason was ever reported
C37_Witness ==
  /\ result = "failed" /\ current_step = "shipping" /\ childPc = "failed"
  /\ lastCall.op = "package_prepared" /\ lastCall.flaky = "failed"
  /\ "carrier_dispatched" \notin invoked
  /\ dispatch_failed_reason = NULL

\* C38: no run invokes order shipped: in every state the Orders rows are in
\* state received or validated and there is no order_shipped Event, also
\* when the run has returned Shipped with current_step shipped.
C38_OrderNeverMarkedShipped ==
  /\ "order_shipped" \notin invoked
  /\ \A i \in DOMAIN orders : orders[i].state \in {"received", "validated"}
  /\ \A i \in DOMAIN events : events[i].type # "order_shipped"

\* the run has returned Shipped and the order's row still says validated
C38_Witness ==
  /\ result = "Shipped" /\ current_step = "shipped"
  /\ HasOrder(orders, order_id) /\ OrderRow(orders, order_id).state = "validated"

ChargeEvent(id, row) ==
  Event(id, "payment_charged",
        [payment_id |-> row.payment_id, amount |-> row.amount, status |-> row.status])

\* C40: in every reachable ledger, a payment charged invocation that gets
\* past the simulator succeeds and appends exactly one payment_charged Event
\* under its own order; when the payment_id is already recorded, for the same
\* or for another order, the Payments table is left as it is and the Event
\* carries the persisted row's amount and status, not the caller's.
C40_ChargeOnForeignPayment ==
  \A id \in OrderIds, its \in LedgerItems, pid \in PaymentIds :
    HasOrder(orders, id) =>
      LET res == charge_payment_activity(CurDb, LedgerOrder(id, its, EMPTY), pid, "ok")
      IN  /\ res.ok
          /\ res.db.orders = orders
          /\ HasPayment(payments, pid)
               => /\ res.db.payments = payments
                  /\ res.db.events =
                       Append(events, ChargeEvent(id, FirstPayment(payments, pid)))
                  /\ res.ret.amount = FirstPayment(payments, pid).amount
          /\ ~HasPayment(payments, pid)
               => /\ Len(res.db.payments) = Len(payments) + 1
                  /\ res.db.events =
                       Append(events, ChargeEvent(id, FirstPayment(res.db.payments, pid)))

\* order B was charged on a payment recorded for order A: the row is A's,
\* the Event is B's and carries A's amount, which is not what B's items
\* asked for
C40_Witness ==
  \E i \in DOMAIN payments, j \in DOMAIN events :
    /\ events[j].type = "payment_charged"
    /\ events[j].order_id # payments[i].order_id
    /\ events[j].payload.payment_id = payments[i].payment_id
    /\ events[j].payload.amount = payments[i].amount
    /\ lastRet.ret.payment_id = payments[i].payment_id
    /\ lastRet.asked # payments[i].amount

\* C39: the address of an Orders row is the one given to the order received
\* invocation that inserted it, which is the address the saga was started
\* with: no step and no update_address signal changes it afterwards, and a
\* repeated order received, with whatever address, leaves the Orders table
\* (state and address) as it is.
C39_AddressNotWrittenBack ==
  /\ [](HasOrder(orders, order_id)
          => /\ OrderRow(orders, order_id).address = AddrOr(argAddress)
             /\ \A addr \in StartAddresses \cup SignalAddresses :
                  receive_order_activity(CurDb, order_id, items, addr, "ok").db.orders
                    = orders)
  /\ [][\A i \in DOMAIN orders :
          /\ i \in DOMAIN orders'
          /\ orders'[i].id = orders[i].id
          /\ orders'[i].address = orders[i].address]_vars

\* payment charged was invoked with an updated address while the order's
\* row still holds the address the saga was started with
C39_Witness ==
  /\ HasOrder(orders, order_id)
  /\ address \in SignalAddresses
  /\ lastCall.op = "payment_charged" /\ lastCall.address = address
  /\ OrderRow(orders, order_id).address # address

\* the quantities stated by the lines of an items list, added up; a line
\* that states none counts as `missing`
RECURSIVE QtyTotal(_, _, _)
QtyTotal(its, n, missing) ==
  IF n = 0 THEN 0
  ELSE QtyTotal(its, n - 1, missing)
         + (IF "qty" \in DOMAIN its[n] THEN its[n].qty ELSE missing)

\* C35 (as stated): the amount a payment charged invocation records when it
\* inserts the Payments row is the sum of the quantities its items state:
\* nothing is added for anything else, and an empty list gives 0.
C35_AmountIsSumOfQty ==
  [][Len(payments') > Len(payments)
       => payments'[Len(payments')].amount
            = QtyTotal(lastRet'.items, Len(lastRet'.items), 0)]_vars

\* C35 (amended): the amount recorded is a function of items alone: the sum
\* over the lines of the line's qty, a line without a qty counting as 1; an
\* empty list gives 0.
C35_AmountIsSumOfQtyOrOne ==
  /\ [][Len(payments') > Len(payments)
          => payments'[Len(payments')].amount
               = QtyTotal(lastRet'.items, Len(lastRet'.items), 1)]_vars
  /\ [](\A its \in LedgerItems :
          _sum_amount(its) = QtyTotal(its, Len(its), 1))
  /\ [](_sum_amount(<<>>) = 0)

\* a payment was recorded for items with a line that states no quantity:
\* the amount is the stated 2 plus 1
C35_Witness ==
  /\ lastRet.items = <<Item(2), ItemNoQty>>
  /\ \E i \in DOMAIN payments :
       /\ payments[i].payment_id = lastRet.ret.payment_id
       /\ payments[i].amount = 3
       /\ lastRet.asked = 3

OnlyDispatchFailedSet(w1, w2) ==
  w2 = [w1 EXCEPT !.dispatch_failed_reason = w2.dispatch_failed_reason]

\* C32: a signal addressed to order-<id> leaves every execution but the open
\* one with that id as it was; and when a step changes an order execution
\* together with another execution, the other one is its own shipping
\* sub-saga (same order_id), and the order execution is either closed by
\* the step or changed in dispatch_failed_reason alone.
C32_InstancesDoNotInterfere ==
  [][/\ \A oid \in OrderIds, s \in FleetSignals :
          FleetSignal(oid, s[1], s[2]) =>
            \A e \in fleet : ~(e.id = WorkflowId(oid) /\ e.open) => e \in fleet'
     /\ \A e \in OrderExecutions(fleet) : e \notin fleet' =>
          \A x \in fleet \ {e} : x \notin fleet' =>
            /\ x.kind = "ship" /\ x.parent = Key(e)
            /\ x.args.order_id = e.args.order_id
            /\ \E f \in fleet' :
                 Key(f) = Key(e) /\ (~f.open \/ OnlyDispatchFailedSet(e.w, f.w))
    ]_vars

\* two orders are open; the first has taken an address update, an approval
\* and its sub-saga's dispatch_failed, the second is at shipping untouched
C32_Witness ==
  \E e1, e2 \in OrderExecutions(fleet) :
    /\ e1.open /\ e2.open /\ e1.id = "order-o1" /\ e2.id = "order-o2"
    /\ e1.w.address = "A" /\ e1.w.approved
    /\ e1.w.dispatch_failed_reason = DispatchError
    /\ e2.w.current_step = "shipping" /\ e2.w.address = "S"
    /\ e2.w.dispatch_failed_reason # DispatchError
    /\ \E c \in ChildOf(e2) : c.open

\* C34: a start for an order_id whose execution is open is refused and
\* leaves the executions as they were; every order execution has the id
\* order-<order_id> and every sub-saga the id ship-<order_id>, and no two
\* open executions of one kind belong to the same order_id.
C34_OneActiveInstancePerOrder ==
  /\ [](\A e \in fleet :
          /\ e.kind = "order" => e.id = WorkflowId(e.args.order_id)
          /\ e.kind = "ship" => e.id = ShipWorkflowId(e.args.order_id)
          /\ e.open => \A x \in fleet :
               (x.open /\ x.kind = e.kind /\ x.args.order_id = e.args.order_id)
                 => x = e)
  /\ [][\A oid \in OrderIds :
          (Running(WorkflowId(oid)) # {} /\ FleetStart(oid, "p1", <<Item(2)>>, "S"))
            => (fleet' = fleet /\ fleetObs' = Refused("start", WorkflowId(oid)))]_vars

\* a second start for o1 has just been refused while the second run of
\* order-o1, started after the first had closed, is open with its sub-saga
C34_Witness ==
  /\ fleetObs = Refused("start", "order-o1")
  /\ \E e \in Running("order-o1") :
       e.run = 2 /\ \E c \in ChildOf(e) : c.open /\ c.id = "ship-o1"

====
